---- MODULE Spec2Model ----
(***************************************************************************)
(* zip-editor: the archive content engine (tree builder, deletion flag     *)
(* store, archive rewriter, model cache) and the window handlers that      *)
(* drive it.  Strings are sequences of bytes (Go strings), so that the     *)
(* store key, the path arithmetic and the encoding recovery are computed   *)
(* as the code computes them.                                              *)
(***************************************************************************)
EXTENDS Integers, Sequences, FiniteSets, TLC

(* ------------------------------------------------------------------ *)
(* Bytes used by the code as literals                                  *)
(* ------------------------------------------------------------------ *)
Slash == 47
Colon == 58
Dot == 46
Backslash == 92
Tab == 9
Newline == 10
CarriageReturn == 13
ControlLimit == 32
RuneSelf == 128
RuneError == 65533

(* Bytes the archives of the model are written with *)
ChA == 97
ChB == 98
ChX == 120
ChY == 121
ChZ == 122
KanaByte == 177

(* ------------------------------------------------------------------ *)
(* Generic sequence helpers                                            *)
(* ------------------------------------------------------------------ *)
Range(s) == {s[i] : i \in DOMAIN s}

Last(s) == s[Len(s)]

Front(s) == SubSeq(s, 1, Len(s) - 1)

RECURSIVE Flatten(_)
Flatten(ss) == IF ss = <<>> THEN <<>> ELSE Head(ss) \o Flatten(Tail(ss))

(* strings.HasSuffix(s, "/") *)
HasSuffixSlash(s) == Len(s) > 0 /\ s[Len(s)] = Slash

(* strings.TrimSuffix(s, "/") *)
TrimSuffixSlash(s) == IF HasSuffixSlash(s) THEN Front(s) ELSE s

(* strings.ReplaceAll(s, "\\", "/") *)
ReplaceBackslash(s) == [i \in DOMAIN s |-> IF s[i] = Backslash THEN Slash ELSE s[i]]

(* strings.Split(s, "/") *)
RECURSIVE SplitAcc(_, _, _)
SplitAcc(s, cur, acc) ==
    IF s = <<>> THEN Append(acc, cur)
    ELSE IF Head(s) = Slash THEN SplitAcc(Tail(s), <<>>, Append(acc, cur))
    ELSE SplitAcc(Tail(s), Append(cur, Head(s)), acc)

SplitSlash(s) == SplitAcc(s, <<>>, <<>>)

(* ------------------------------------------------------------------ *)
(* UTF-8 (unicode/utf8)                                                *)
(* ------------------------------------------------------------------ *)
IsCont(b) == 128 <= b /\ b <= 191

(* Width of the well-formed UTF-8 sequence s starts with, 0 if none *)
Utf8Width(s) ==
    LET c0 == s[1]
        n == Len(s)
    IN  IF c0 < RuneSelf THEN 1
        ELSE IF 194 <= c0 /\ c0 <= 223
            THEN IF n >= 2 /\ IsCont(s[2]) THEN 2 ELSE 0
        ELSE IF 224 <= c0 /\ c0 <= 239
            THEN IF n >= 3 /\ IsCont(s[2]) /\ IsCont(s[3])
                    /\ (c0 = 224 => s[2] >= 160) /\ (c0 = 237 => s[2] <= 159)
                 THEN 3 ELSE 0
        ELSE IF 240 <= c0 /\ c0 <= 244
            THEN IF n >= 4 /\ IsCont(s[2]) /\ IsCont(s[3]) /\ IsCont(s[4])
                    /\ (c0 = 240 => s[2] >= 144) /\ (c0 = 244 => s[2] <= 143)
                 THEN 4 ELSE 0
        ELSE 0

(* utf8.ValidString that knows one-byte sequences only *)
ValidStringAscii(s) == \A i \in DOMAIN s : s[i] < RuneSelf

(* utf8.ValidString *)
RECURSIVE ValidString(_)
ValidString(s) ==
    IF s = <<>> THEN TRUE
    ELSE LET w == Utf8Width(s)
         IN  w > 0 /\ ValidString(SubSeq(s, w + 1, Len(s)))

RuneAt(s, w) ==
    IF w = 1 THEN s[1]
    ELSE IF w = 2 THEN (s[1] - 192) * 64 + (s[2] - 128)
    ELSE IF w = 3 THEN (s[1] - 224) * 4096 + (s[2] - 128) * 64 + (s[3] - 128)
    ELSE (s[1] - 240) * 262144 + (s[2] - 128) * 4096 + (s[3] - 128) * 64 + (s[4] - 128)

(* the runes `for _, r := range s` yields: an ill-formed byte yields RuneError *)
RECURSIVE Runes(_)
Runes(s) ==
    IF s = <<>> THEN <<>>
    ELSE LET w == Utf8Width(s)
         IN  IF w = 0 THEN <<RuneError>> \o Runes(Tail(s))
             ELSE <<RuneAt(s, w)>> \o Runes(SubSeq(s, w + 1, Len(s)))

EncodeRune(r) ==
    IF r < 128 THEN <<r>>
    ELSE IF r < 2048 THEN <<192 + (r \div 64), 128 + (r % 64)>>
    ELSE IF r < 65536
        THEN <<224 + (r \div 4096), 128 + ((r \div 64) % 64), 128 + (r % 64)>>
    ELSE <<240 + (r \div 262144), 128 + ((r \div 4096) % 64),
           128 + ((r \div 64) % 64), 128 + (r % 64)>>

RECURSIVE EncodeRunes(_)
EncodeRunes(rs) ==
    IF rs = <<>> THEN <<>> ELSE EncodeRune(Head(rs)) \o EncodeRunes(Tail(rs))

(* ------------------------------------------------------------------ *)
(* Encoding recovery (common.AutoDetectEncoding)                       *)
(* ------------------------------------------------------------------ *)
containsControlCharacters(s) ==
    \E r \in Range(Runes(s)) :
        r < ControlLimit /\ r # Tab /\ r # Newline /\ r # CarriageReturn

(* the order of the encodings slice *)
encodings ==
    <<"ShiftJIS", "EUCJP", "ISO2022JP", "EUCKR", "GBK", "Big5",
      "Windows1252", "UTF16BE", "UTF16LE">>

(* A double-byte table entry: the decoders' tables are not part of the    *)
(* repository; a (lead, trail) pair stands for one ideograph of the CJK   *)
(* block, which is all the code looks at (a valid, non-control rune).     *)
TableBase == 19968
TableSpan == 20480
TableRune(c0, c1) == TableBase + ((c0 * 256 + c1) % TableSpan)

(* Single-byte mapping of a decoder, -1 when the byte is not single *)
SingleRune(enc, c) ==
    IF enc \in {"UTF16BE", "UTF16LE"} THEN -1
    ELSE IF c < RuneSelf THEN c
    ELSE IF enc = "ShiftJIS"
        THEN IF 161 <= c /\ c < 224 THEN c + (65377 - 161)
             ELSE IF c = 128 THEN 128 ELSE -1
    ELSE IF enc = "Windows1252" THEN c
    ELSE IF enc = "GBK" /\ c = 128 THEN 8364
    ELSE -1

IsLead(enc, c) ==
    CASE enc = "ShiftJIS" -> (129 <= c /\ c < 160) \/ (224 <= c /\ c < 253)
      [] enc = "EUCJP" -> c = 142 \/ (161 <= c /\ c <= 254)
      [] enc \in {"EUCKR", "GBK", "Big5"} -> 129 <= c /\ c <= 254
      [] OTHER -> FALSE

IsTrail(enc, c0, c) ==
    CASE enc = "ShiftJIS" -> 64 <= c /\ c < 253 /\ c # 127
      [] enc = "EUCJP" -> IF c0 = 142 THEN 161 <= c /\ c <= 223 ELSE 161 <= c /\ c <= 254
      [] enc = "EUCKR" -> 65 <= c /\ c <= 254
      [] enc = "GBK" -> 64 <= c /\ c <= 254 /\ c # 127
      [] enc = "Big5" -> (64 <= c /\ c <= 126) \/ (161 <= c /\ c <= 254)
      [] OTHER -> FALSE

(* transform.String(enc.NewDecoder(), input): the decoders of x/text      *)
(* replace what they cannot decode by U+FFFD and report no error.         *)
RECURSIVE DecodeBytes(_, _)
DecodeBytes(enc, s) ==
    IF s = <<>> THEN <<>>
    ELSE LET c0 == s[1]
             one == SingleRune(enc, c0)
         IN  IF one # -1 THEN <<one>> \o DecodeBytes(enc, Tail(s))
             ELSE IF IsLead(enc, c0) /\ Len(s) >= 2 /\ IsTrail(enc, c0, s[2])
                 THEN <<IF enc = "EUCJP" /\ c0 = 142 THEN s[2] + (65377 - 161)
                        ELSE TableRune(c0, s[2])>>
                      \o DecodeBytes(enc, SubSeq(s, 3, Len(s)))
             ELSE <<RuneError>> \o DecodeBytes(enc, Tail(s))

RECURSIVE DecodeUTF16(_, _)
DecodeUTF16(big, s) ==
    IF s = <<>> THEN <<>>
    ELSE IF Len(s) = 1 THEN <<RuneError>>
    ELSE LET u == IF big THEN s[1] * 256 + s[2] ELSE s[2] * 256 + s[1]
         IN  <<IF 55296 <= u /\ u < 57344 THEN RuneError ELSE u>>
             \o DecodeUTF16(big, SubSeq(s, 3, Len(s)))

(* [out, err] of one decoder *)
Decode(enc, input) ==
    [out |-> EncodeRunes(IF enc = "UTF16BE" THEN DecodeUTF16(TRUE, input)
                         ELSE IF enc = "UTF16LE" THEN DecodeUTF16(FALSE, input)
                         ELSE DecodeBytes(enc, input)),
     err |-> FALSE]

(* the test without the check for control characters *)
AcceptedWithControl(d) == ~d.err /\ ValidString(d.out)

(* the test a candidate decoding has to pass *)
Accepted(d) == ~d.err /\ ValidString(d.out) /\ ~containsControlCharacters(d.out)

(* the fallback that hands the input back *)
FallbackRaw(d, input) == input

(* the Shift-JIS fallback after the loop *)
Fallback(d, input) == IF ~d.err THEN d.out ELSE input

(* a return of AutoDetectEncoding: the string, the number of decoders of the loop that
   ran, whether the decoder after the loop ran *)
Detected(out, tried, forced) == [out |-> out, tried |-> tried, forced |-> forced]

(* the loop over encodings from the i-th on, and the lines after it *)
RECURSIVE TryEncodings(_, _)
TryEncodings(input, i) ==
    IF i > Len(encodings)
    THEN Detected(Fallback(Decode("ShiftJIS", input), input), Len(encodings), TRUE)
    ELSE IF Accepted(Decode(encodings[i], input))
        THEN Detected(Decode(encodings[i], input).out, i, FALSE)
    ELSE TryEncodings(input, i + 1)

(* AutoDetectEncoding without a decoder: the input as it is *)
DetectNothing(input) == Detected(input, 0, FALSE)

Detect(input) ==
    IF ValidString(input) THEN Detected(input, 0, FALSE) ELSE TryEncodings(input, 1)

AutoDetectEncoding(input) == Detect(input).out

(* ------------------------------------------------------------------ *)
(* path/filepath on the program's platform (Windows: walk is           *)
(* Windows-only), for paths without a volume name                      *)
(* ------------------------------------------------------------------ *)
IsPathSeparator(c) == c = Slash \/ c = Backslash

(* the components between separators *)
RECURSIVE SepSplitAcc(_, _, _)
SepSplitAcc(s, cur, acc) ==
    IF s = <<>> THEN Append(acc, cur)
    ELSE IF IsPathSeparator(Head(s)) THEN SepSplitAcc(Tail(s), <<>>, Append(acc, cur))
    ELSE SepSplitAcc(Tail(s), Append(cur, Head(s)), acc)

RECURSIVE CleanParts(_, _, _)
CleanParts(parts, out, rooted) ==
    IF parts = <<>> THEN out
    ELSE LET p == Head(parts)
         IN  IF p = <<>> \/ p = <<Dot>> THEN CleanParts(Tail(parts), out, rooted)
             ELSE IF p = <<Dot, Dot>>
                 THEN IF out # <<>> /\ Last(out) # <<Dot, Dot>>
                          THEN CleanParts(Tail(parts), Front(out), rooted)
                      ELSE IF rooted THEN CleanParts(Tail(parts), out, rooted)
                      ELSE CleanParts(Tail(parts), Append(out, p), rooted)
             ELSE CleanParts(Tail(parts), Append(out, p), rooted)

RECURSIVE JoinBackslash(_)
JoinBackslash(parts) ==
    IF parts = <<>> THEN <<>>
    ELSE IF Len(parts) = 1 THEN Head(parts)
    ELSE Head(parts) \o <<Backslash>> \o JoinBackslash(Tail(parts))

(* filepath.Clean *)
Clean(path) ==
    IF path = <<>> THEN <<Dot>>
    ELSE LET rooted == IsPathSeparator(path[1])
             body == JoinBackslash(CleanParts(SepSplitAcc(path, <<>>, <<>>), <<>>, rooted))
             out == IF rooted THEN <<Backslash>> \o body ELSE body
         IN  IF out = <<>> THEN <<Dot>> ELSE out

(* index of the last separator of path, 0 if it has none *)
RECURSIVE LastSeparator(_, _)
LastSeparator(path, i) ==
    IF i = 0 THEN 0
    ELSE IF IsPathSeparator(path[i]) THEN i ELSE LastSeparator(path, i - 1)

(* filepath.Dir *)
Dir(path) == Clean(SubSeq(path, 1, LastSeparator(path, Len(path))))

RECURSIVE StripTrailingSeparators(_)
StripTrailingSeparators(path) ==
    IF path # <<>> /\ IsPathSeparator(Last(path))
    THEN StripTrailingSeparators(Front(path)) ELSE path

(* filepath.Base *)
Base(path) ==
    IF path = <<>> THEN <<Dot>>
    ELSE LET p == StripTrailingSeparators(path)
             q == SubSeq(p, LastSeparator(p, Len(p)) + 1, Len(p))
         IN  IF q = <<>> THEN <<Backslash>> ELSE q

(* filepath.FromSlash, the separator being the backslash *)
FromSlash(s) == [i \in DOMAIN s |-> IF s[i] = Slash THEN Backslash ELSE s[i]]

(* strings.TrimLeft(s, "\\/") *)
RECURSIVE TrimLeftSeparators(_)
TrimLeftSeparators(s) ==
    IF s # <<>> /\ IsPathSeparator(Head(s)) THEN TrimLeftSeparators(Tail(s)) ELSE s

(* filepath.Join(dir, rel): an empty element is ignored, the result is cleaned *)
Join(dir, rel) == IF rel = <<>> THEN Clean(dir) ELSE Clean(dir \o <<Backslash>> \o rel)

(* ------------------------------------------------------------------ *)
(* Archives: zip.File headers and the file on disk                     *)
(* ------------------------------------------------------------------ *)
Store == 0
Deflate == 8

(* time.Time: an instant and the location it is shown in *)
Time(sec, loc) == [sec |-> sec, loc |-> loc]
ZeroTime == Time(0, "UTC")

(* one entry of an archive: the header fields and the payload *)
Entry(name, method, modified, comment, attrs, data) ==
    [Name |-> name, Method |-> method, Modified |-> modified,
     Comment |-> comment, ExternalAttrs |-> attrs, Data |-> data]

(* a file on disk: the entry blocks written so far, whether the central    *)
(* directory that ends an archive has been written, and the file's mtime   *)
DiskFile(entries, complete, modTime) ==
    [entries |-> entries, complete |-> complete, modTime |-> modTime]

(* ------------------------------------------------------------------ *)
(* model.ZipTreeItem, model.ZipTreeModel                               *)
(* ------------------------------------------------------------------ *)
(* A tree is an arena of items; an item refers to others by index, 0 is nil *)
ZipTreeItem(name, path, parent, isDir) ==
    [name |-> name, size |-> 0, date |-> ZeroTime, path |-> path,
     children |-> <<>>, files |-> <<>>, parent |-> parent, isDir |-> isDir,
     DeleteFlag |-> FALSE]

GetPath(nodes, n) == nodes[n].path

GetFiles(nodes, n) == nodes[n].files

GetChildren(nodes, n) == nodes[n].children

IsDir(nodes, n) == nodes[n].isDir

(* createDirectoryPath: st = [nodes, dirMap]; returns [nodes, dirMap, item] *)
(* the new directory without parentItem.children = append(parentItem.children, newDir) *)
AddDirectoryDetached(st, part, currentPath, parentItem) ==
    [nodes |-> Append(st.nodes, ZipTreeItem(part, currentPath, parentItem, TRUE)),
     dirMap |-> (currentPath :> (Len(st.nodes) + 1)) @@ st.dirMap]

(* the new directory without parent: parentItem *)
AddDirectoryNoParent(st, part, currentPath, parentItem) ==
    [nodes |-> [Append(st.nodes, ZipTreeItem(part, currentPath, 0, TRUE))
                   EXCEPT ![parentItem].children = Append(@, Len(st.nodes) + 1)],
     dirMap |-> (currentPath :> (Len(st.nodes) + 1)) @@ st.dirMap]

(* newDir := &ZipTreeItem{...}; append to the parent's children; dirMap[currentPath] = newDir *)
AddDirectory(st, part, currentPath, parentItem) ==
    [nodes |-> [Append(st.nodes, ZipTreeItem(part, currentPath, parentItem, TRUE))
                   EXCEPT ![parentItem].children = Append(@, Len(st.nodes) + 1)],
     dirMap |-> (currentPath :> (Len(st.nodes) + 1)) @@ st.dirMap]

RECURSIVE createDirectoryParts(_, _, _, _)
(* the loop body without the lookup in dirMap: a new directory for every part *)
createDirectoryStepAlways(parts, st, currentPath, parentItem) ==
    createDirectoryParts(Tail(parts), AddDirectory(st, Head(parts), currentPath, parentItem),
                         currentPath, Len(st.nodes) + 1)

createDirectoryStep(parts, st, currentPath, parentItem) ==
    IF currentPath \in DOMAIN st.dirMap
    THEN createDirectoryParts(Tail(parts), st, currentPath, st.dirMap[currentPath])
    ELSE createDirectoryParts(Tail(parts), AddDirectory(st, Head(parts), currentPath, parentItem),
                              currentPath, Len(st.nodes) + 1)

createDirectoryParts(parts, st, parentPath, parentItem) ==
    IF parts = <<>> THEN [nodes |-> st.nodes, dirMap |-> st.dirMap, item |-> parentItem]
    ELSE IF Head(parts) = <<>> THEN createDirectoryParts(Tail(parts), st, parentPath, parentItem)
    ELSE createDirectoryStep(parts, st, parentPath \o Head(parts) \o <<Slash>>, parentItem)

createDirectoryPath(dirPath, st) ==
    IF dirPath = <<Dot>> THEN [nodes |-> st.nodes, dirMap |-> st.dirMap, item |-> 1]
    ELSE createDirectoryParts(SplitSlash(dirPath), st, <<>>, 1)

(* the file item appended to parentItem.children instead of parentItem.files *)
AddFileItemAsChild(r, fileName) ==
    [nodes |-> [Append(r.nodes, ZipTreeItem(fileName, r.nodes[r.item].path \o fileName,
                                            r.item, FALSE))
                   EXCEPT ![r.item].children = Append(@, Len(r.nodes) + 1)],
     dirMap |-> r.dirMap]

(* fileItem := &ZipTreeItem{...}; parentItem.files = append(parentItem.files, fileItem) *)
AddFileItem(r, fileName) ==
    [nodes |-> [Append(r.nodes, ZipTreeItem(fileName, r.nodes[r.item].path \o fileName,
                                            r.item, FALSE))
                   EXCEPT ![r.item].files = Append(@, Len(r.nodes) + 1)],
     dirMap |-> r.dirMap]

LoadFileEntry(path, st) ==
    AddFileItem(createDirectoryPath(TrimSuffixSlash(ReplaceBackslash(Dir(path))), st),
                Base(path))

DropItem(r) == [nodes |-> r.nodes, dirMap |-> r.dirMap]

(* one iteration of the loop over reader.File in LoadZipFile *)
LoadEntry(file, st) ==
    IF HasSuffixSlash(file.Name)
    THEN DropItem(createDirectoryPath(TrimSuffixSlash(AutoDetectEncoding(file.Name)), st))
    ELSE LoadFileEntry(AutoDetectEncoding(file.Name), st)

RECURSIVE LoadEntries(_, _)
LoadEntries(files, st) ==
    IF files = <<>> THEN st ELSE LoadEntries(Tail(files), LoadEntry(Head(files), st))

(* the tree LoadZipFile builds, with the directory lookup map *)
BuildTree(filePath, files) ==
    LoadEntries(files, [nodes |-> <<ZipTreeItem(Base(filePath), <<>>, 0, TRUE)>>,
                        dirMap |-> (<<>> :> 1)])

ZipTreeModel(nodes, filePath, modTime) ==
    [rootItem |-> 1, nodes |-> nodes, zipPath |-> filePath, zipModTime |-> modTime]

(* ------------------------------------------------------------------ *)
(* fileops: the deletion flag store                                    *)
(* ------------------------------------------------------------------ *)
getDeleteFlagKey(zipPath, filePath) == zipPath \o <<Colon, Colon>> \o filePath

(* deleteFlags[key] of a Go map: the zero value for an absent key *)
(* a map read whose zero value is true *)
MapGetDefaultTrue(flags, key) == IF key \in DOMAIN flags THEN flags[key] ELSE TRUE

(* deleteFlags[key]: the value, or the zero value when the key is absent *)
MapGet(flags, key) == IF key \in DOMAIN flags THEN flags[key] ELSE FALSE

GetDeleteFlagIn(flags, zipPath, filePath) == MapGet(flags, getDeleteFlagKey(zipPath, filePath))

setDeleteFlag(flags, zipPath, filePath, flag) ==
    (getDeleteFlagKey(zipPath, filePath) :> flag) @@ flags

(* x.DeleteFlag = x.DeleteFlag || item.DeleteFlag *)
CopyFlagSticky(st, item, x) ==
    [nodes |-> [st.nodes EXCEPT ![x].DeleteFlag = @ \/ st.nodes[item].DeleteFlag],
     flags |-> st.flags]

(* x.DeleteFlag = item.DeleteFlag, on st = [nodes, flags] *)
CopyFlag(st, item, x) ==
    [nodes |-> [st.nodes EXCEPT ![x].DeleteFlag = st.nodes[item].DeleteFlag],
     flags |-> st.flags]

(* setDeleteFlag(zipPath, x.Name, x.DeleteFlag) *)
RecordFlagByName(zipPath, st, x) ==
    [nodes |-> st.nodes,
     flags |-> setDeleteFlag(st.flags, zipPath, st.nodes[x].name, st.nodes[x].DeleteFlag)]

(* setDeleteFlag(zipPath, x.GetPath(), x.DeleteFlag), on st = [nodes, flags] *)
RecordFlag(zipPath, st, x) ==
    [nodes |-> st.nodes,
     flags |-> setDeleteFlag(st.flags, zipPath, GetPath(st.nodes, x), st.nodes[x].DeleteFlag)]

(* UpdateDeleteFlagRecursively: the loop over item.GetFiles() *)
RECURSIVE UpdateFiles(_, _, _, _)
UpdateFiles(zipPath, st, item, files) ==
    IF files = <<>> THEN st
    ELSE UpdateFiles(zipPath, RecordFlag(zipPath, CopyFlag(st, item, Head(files)), Head(files)),
                     item, Tail(files))

(* the loop over the children without the recursive call *)
RECURSIVE UpdateChildrenShallow(_, _, _, _)
UpdateChildrenShallow(zipPath, st, item, children) ==
    IF children = <<>> THEN st
    ELSE UpdateChildrenShallow(zipPath,
             RecordFlag(zipPath, CopyFlag(st, item, Head(children)), Head(children)),
             item, Tail(children))

(* UpdateDeleteFlagRecursively on st = [nodes, flags], and its loop over
   item.GetChildren() *)
RECURSIVE UpdateDeleteFlagRecursively(_, _, _)
RECURSIVE UpdateChildren(_, _, _, _)
UpdateChildren(zipPath, st, item, children) ==
    IF children = <<>> THEN st
    ELSE UpdateChildren(zipPath,
             UpdateDeleteFlagRecursively(zipPath, CopyFlag(st, item, Head(children)),
                                         Head(children)),
             item, Tail(children))

UpdateDeleteFlagRecursively(zipPath, st, item) ==
    UpdateChildren(zipPath,
        UpdateFiles(zipPath, RecordFlag(zipPath, st, item), item, GetFiles(st.nodes, item)),
        item, GetChildren(st.nodes, item))

(* ------------------------------------------------------------------ *)
(* The archives and paths of the model                                 *)
(* ------------------------------------------------------------------ *)
ChI == 105
ChP == 112

DotZip == <<Dot, ChZ, ChI, ChP>>

PathA == <<ChA>> \o DotZip
PathB == <<ChB>> \o DotZip
PathText == <<ChA>>

ZipPaths == {PathA, PathB}

(* what the user can drop on the window *)
DropLists == {<<PathText, PathA>>, <<PathA, PathB>>}

ArchiveA ==
    <<Entry(<<ChA, Slash>>, Store, Time(10, "Local"), <<>>, 16, 0),
      Entry(<<ChA, Slash, KanaByte>>, Deflate, Time(20, "Local"), <<ChX>>, 32, 1),
      Entry(<<ChA, Slash, ChB, Slash, ChY>>, Store, Time(30, "UTC"), <<>>, 0, 2)>>

ArchiveB ==
    <<Entry(<<ChX>>, Store, Time(50, "UTC"), <<>>, 0, 4)>>

EmptyMap == [k \in {} |-> FALSE]

(* The user's actions are bounded: a flag edit costs one unit of MaxOps, a *)
(* rewrite started with the delete button costs RewriteCost units.        *)
MaxOps == 3
RewriteCost == 2

(* ------------------------------------------------------------------ *)
(* State                                                               *)
(* ------------------------------------------------------------------ *)
VARIABLES
    disk,               \* the files at the archive paths
    models,             \* every *ZipTreeModel built so far, by address
    zipModelCache,      \* model.zipModelCache: path -> model
    deleteFlags,        \* fileops.deleteFlags: key -> flag
    currentZipPath,     \* CreateMainWindow: currentZipPath
    zipModel,           \* CreateMainWindow: zipModel (0 is nil)
    tvModel,            \* the model the tree view shows (0: none)
    tvCurrent,          \* tv.CurrentItem() (0 is nil)
    tableModel,         \* the FileItemModel of the right table
    fileListModel,      \* model.FileListModel: paths, deleting
    fileListIndex,      \* fileListView.CurrentIndex()
    lastFileListIndex,  \* CreateMainWindow: lastFileListIndex
    tasks,              \* the goroutines started by the delete button
    edits,              \* history: the number of flag edits so far
    lastOp,             \* history: the flag edit that ran last and its arguments
    lastSet,            \* history: (zipPath, filePath) -> the value last set for it
    lastLoad,           \* history: the last call of LoadZipFile, what it found and returned
    tempFS,             \* the files and directories at and below os.TempDir()
    lastExtract,        \* history: the last call of ExtractFileToTemp and what it returned
    lastDetect,         \* history: the last direct call of AutoDetectEncoding
    budget              \* the units of user action a behaviour may spend

vars ==
    <<disk, models, zipModelCache, deleteFlags, currentZipPath, zipModel, tvModel,
      tvCurrent, tableModel, fileListModel, fileListIndex, lastFileListIndex, tasks,
      edits, lastOp, lastSet, lastLoad, tempFS, lastExtract, lastDetect, budget>>

NoTable == [model |-> 0, Items |-> <<>>]

NoOp == [op |-> "none"]

NoLoad == [path |-> <<>>]

history == <<edits, lastOp, lastSet>>

(* the files on disk when the program starts *)
(* os.TempDir(), and the directories and regular files at and below it *)
ChT == 116
TempDir == <<Backslash, ChT>>

Directory == [isDir |-> TRUE, data |-> 0]

RegularFile(data) == [isDir |-> FALSE, data |-> data]

NoTemp == (TempDir :> Directory)

NoExtract == [n |-> 0]

NoDetect == [called |-> FALSE]

Files(archiveA, archiveB) ==
    (PathA :> DiskFile(archiveA, TRUE, 1)) @@ (PathB :> DiskFile(archiveB, TRUE, 1))

Init ==
    /\ disk = Files(ArchiveA, ArchiveB)
    /\ models = <<>>
    /\ zipModelCache = EmptyMap
    /\ deleteFlags = EmptyMap
    /\ currentZipPath = <<>>
    /\ zipModel = 0
    /\ tvModel = 0
    /\ tvCurrent = 0
    /\ tableModel = NoTable
    /\ fileListModel = [paths |-> <<>>, deleting |-> EmptyMap]
    /\ fileListIndex = -1
    /\ lastFileListIndex = -1
    /\ tasks = <<>>
    /\ edits = 0
    /\ lastOp = NoOp
    /\ lastSet = EmptyMap
    /\ lastLoad = NoLoad
    /\ tempFS = NoTemp
    /\ lastExtract = NoExtract
    /\ lastDetect = NoDetect
    /\ budget = MaxOps

GetDeleteFlag(zipPath, filePath) == GetDeleteFlagIn(deleteFlags, zipPath, filePath)

Spent == edits + RewriteCost * Len(tasks) + lastExtract.n

CanEdit == Spent + 1 <= budget

CanStart == Spent + RewriteCost <= budget

(* ------------------------------------------------------------------ *)
(* model.FileListModel                                                 *)
(* ------------------------------------------------------------------ *)
PathAt(m, row) == IF row < 0 \/ row >= Len(m.paths) THEN <<>> ELSE m.paths[row + 1]

AddPath(m, p) ==
    IF \E i \in DOMAIN m.paths : m.paths[i] = p THEN m
    ELSE [m EXCEPT !.paths = Append(@, p)]

(* an IsDeleting that never says so *)
IsDeletingNever(m, p) == FALSE

IsDeleting(m, p) == MapGet(m.deleting, p)

SetDeleting(m, p, d) == [m EXCEPT !.deleting = (p :> d) @@ @]

(* filepath.Ext(file) == ".zip" *)
RECURSIVE LastDot(_, _)
LastDot(path, i) ==
    IF i = 0 \/ IsPathSeparator(path[i]) THEN 0
    ELSE IF path[i] = Dot THEN i ELSE LastDot(path, i - 1)

Ext(path) ==
    LET i == LastDot(path, Len(path))
    IN  IF i = 0 THEN <<>> ELSE SubSeq(path, i, Len(path))

RECURSIVE AddDropped(_, _)
AddDropped(m, files) ==
    IF files = <<>> THEN m
    ELSE AddDropped(IF Ext(Head(files)) = DotZip THEN AddPath(m, Head(files)) ELSE m,
                    Tail(files))

(* mw.DropFiles handler *)
DropFiles ==
    /\ \E files \in DropLists : fileListModel' = AddDropped(fileListModel, files)
    /\ UNCHANGED <<disk, models, zipModelCache, deleteFlags, currentZipPath, zipModel,
                   tvModel, tvCurrent, tableModel, fileListIndex, lastFileListIndex, tasks>>
    /\ UNCHANGED <<history, lastLoad, tempFS, lastExtract, lastDetect, budget>>

(* ------------------------------------------------------------------ *)
(* model.LoadZipFile: [err, model, models, cache, opened]              *)
(* ------------------------------------------------------------------ *)
(* os.Stat and zip.OpenReader see the file as it is on disk *)
StatOk(filePath) == filePath \in DOMAIN disk

OpenReaderOk(filePath) == filePath \in DOMAIN disk /\ disk[filePath].complete

(* the failure that also drops the cache entries *)
LoadFailedEvicts(opened) ==
    [err |-> TRUE, model |-> 0, models |-> models, cache |-> EmptyMap, opened |-> opened]

(* return nil, err: after os.Stat (opened = FALSE) or after zip.OpenReader *)
LoadFailed(opened) ==
    [err |-> TRUE, model |-> 0, models |-> models, cache |-> zipModelCache,
     opened |-> opened]

(* the build without zipModelCache[filePath] = model *)
LoadBuiltUncached(filePath, modTime, built) ==
    [err |-> FALSE, model |-> Len(models) + 1,
     models |-> Append(models, ZipTreeModel(built.nodes, filePath, modTime)),
     cache |-> zipModelCache,
     opened |-> TRUE]

(* lines 156-210: the model built, stored in the cache and returned *)
LoadBuilt(filePath, modTime, built) ==
    [err |-> FALSE, model |-> Len(models) + 1,
     models |-> Append(models, ZipTreeModel(built.nodes, filePath, modTime)),
     cache |-> (filePath :> (Len(models) + 1)) @@ zipModelCache,
     opened |-> TRUE]

(* the cache test without the comparison of the times *)
CacheHitAnyTime(filePath, modTime) == filePath \in DOMAIN zipModelCache

(* lines 144-148: an entry for the path with the file's modification time *)
CacheHit(filePath, modTime) ==
    /\ filePath \in DOMAIN zipModelCache
    /\ models[zipModelCache[filePath]].zipModTime = modTime

LoadZipFile(filePath) ==
    IF ~StatOk(filePath) THEN LoadFailed(FALSE)
    ELSE IF CacheHit(filePath, disk[filePath].modTime)
        THEN [err |-> FALSE, model |-> zipModelCache[filePath], models |-> models,
              cache |-> zipModelCache, opened |-> FALSE]
    ELSE IF ~OpenReaderOk(filePath) THEN LoadFailed(TRUE)
    ELSE LoadBuilt(filePath, disk[filePath].modTime,
                   BuildTree(filePath, disk[filePath].entries))

(* history: a call LoadZipFile(path) with result r, and what the call found: the cache
   entry for the path (0: none), whether its time is the file's time, whether the file
   can be stat'ed and read as an archive *)
Loaded(path, r) ==
    [path |-> path, err |-> r.err, model |-> r.model, opened |-> r.opened,
     had |-> IF path \in DOMAIN zipModelCache THEN zipModelCache[path] ELSE 0,
     fresh |-> /\ path \in DOMAIN zipModelCache
               /\ path \in DOMAIN disk
               /\ models[zipModelCache[path]].zipModTime = disk[path].modTime,
     stat |-> path \in DOMAIN disk,
     readable |-> path \in DOMAIN disk /\ disk[path].complete]

(* ------------------------------------------------------------------ *)
(* gui.CreateMainWindow: the handlers of the UI thread                 *)
(* ------------------------------------------------------------------ *)
(* the handler without the test of the deleting state *)
FileListSelectOpens ==
    \E idx \in 0 .. Len(fileListModel.paths) - 1 :
        \E path \in {PathAt(fileListModel, idx)}, r \in {LoadZipFile(PathAt(fileListModel, idx))} :
            /\ path # <<>>
            /\ fileListIndex' = idx
            /\ lastLoad' = Loaded(path, r)
            /\ currentZipPath' = path
            /\ zipModel' = r.model
            /\ models' = r.models
            /\ zipModelCache' = r.cache
            /\ IF r.err
               THEN UNCHANGED <<tvModel, tvCurrent, lastFileListIndex>>
               ELSE /\ tvModel' = r.model
                    /\ tvCurrent' = 0
                    /\ lastFileListIndex' = idx
            /\ UNCHANGED <<disk, deleteFlags, tableModel, fileListModel, tasks>>
            /\ UNCHANGED <<history, tempFS, lastExtract, lastDetect, budget>>

(* fileListView.CurrentIndexChanged handler, the user having selected row idx *)
FileListSelect ==
    \E idx \in 0 .. Len(fileListModel.paths) - 1 :
        \E path \in {PathAt(fileListModel, idx)}, r \in {LoadZipFile(PathAt(fileListModel, idx))} :
            /\ path # <<>>
            /\ IF IsDeleting(fileListModel, path)
               THEN /\ fileListIndex' =
                          IF lastFileListIndex >= 0
                             /\ lastFileListIndex < Len(fileListModel.paths)
                          THEN lastFileListIndex ELSE idx
                    /\ UNCHANGED <<models, zipModelCache, currentZipPath, zipModel, tvModel,
                                   tvCurrent, lastFileListIndex, lastLoad>>
               ELSE /\ fileListIndex' = idx
                    /\ lastLoad' = Loaded(path, r)
                    /\ currentZipPath' = path
                    /\ zipModel' = r.model
                    /\ models' = r.models
                    /\ zipModelCache' = r.cache
                    /\ IF r.err
                       THEN UNCHANGED <<tvModel, tvCurrent, lastFileListIndex>>
                       ELSE /\ tvModel' = r.model
                            /\ tvCurrent' = 0
                            /\ lastFileListIndex' = idx
            /\ UNCHANGED <<disk, deleteFlags, tableModel, fileListModel, tasks>>
            /\ UNCHANGED <<history, tempFS, lastExtract, lastDetect, budget>>

(* the item, its files and its children's subtrees *)
RECURSIVE Subtree(_, _)
Subtree(nodes, item) ==
    {item} \cup Range(nodes[item].files)
           \cup UNION {Subtree(nodes, c) : c \in Range(nodes[item].children)}

(* history: the nodes of the subtree that are marked, in the tree or in the store *)
MarkedIn(nodes, zipPath, item) ==
    {n \in Subtree(nodes, item) : nodes[n].DeleteFlag \/ GetDeleteFlag(zipPath, nodes[n].path)}

(* history: an edit by handler op, of item of model, with the flag item has on the call;
   dirty: some node of the subtree was marked before the edit; follows: whether the edit
   comes right after a DeleteAction on the same item, and whether that one was dirty *)
Edit(op, model, item, flag) ==
    [op |-> op, model |-> model, item |-> item, flag |-> flag, zipPath |-> currentZipPath,
     dirty |-> MarkedIn(models[model].nodes, currentZipPath, item) # {},
     follows |-> IF /\ lastOp.op = "DeleteAction"
                    /\ lastOp.model = model
                    /\ lastOp.item = item
                    /\ lastOp.zipPath = currentZipPath
                 THEN IF lastOp.dirty THEN "dirty mark" ELSE "clean mark"
                 ELSE "other"]

(* history: the pairs UpdateDeleteFlagRecursively(zipPath, item) sets, with the value *)
SetBy(model, item, flag) ==
    [pair \in {<<currentZipPath, models[model].nodes[n].path>> :
                  n \in Subtree(models[model].nodes, item)} |-> flag] @@ lastSet

(* fileops.UpdateFileList(tableView, treeItem) *)
UpdateFileList(model, treeItem) ==
    [model |-> model, Items |-> GetFiles(models[model].nodes, treeItem)]

(* the items the tree view shows: the root and, below it, the children *)
RECURSIVE TreeViewItems(_, _)
TreeViewItems(nodes, n) ==
    {n} \cup UNION {TreeViewItems(nodes, c) : c \in Range(nodes[n].children)}

(* tv.CurrentItemChanged handler, the user having selected item *)
TreeSelect ==
    /\ tvModel # 0
    /\ \E item \in TreeViewItems(models[tvModel].nodes, models[tvModel].rootItem) :
        /\ tvCurrent' = item
        /\ tableModel' =
              IF zipModel # 0 /\ IsDir(models[tvModel].nodes, item)
              THEN UpdateFileList(tvModel, item) ELSE tableModel
    /\ UNCHANGED <<disk, models, zipModelCache, deleteFlags, currentZipPath, zipModel,
                   tvModel, fileListModel, fileListIndex, lastFileListIndex, tasks>>
    /\ UNCHANGED <<history, lastLoad, tempFS, lastExtract, lastDetect, budget>>

(* deleteAction / clearAction Triggered handler of the tree context menu *)
MarkDirectory(flag, name) ==
    /\ edits' = edits + 1
    /\ tvModel # 0
    /\ tvCurrent # 0
    /\ IsDir(models[tvModel].nodes, tvCurrent)
    /\ \E st \in {UpdateDeleteFlagRecursively(currentZipPath,
                     [nodes |-> [models[tvModel].nodes EXCEPT ![tvCurrent].DeleteFlag = flag],
                      flags |-> deleteFlags], tvCurrent)} :
           /\ models' = [models EXCEPT ![tvModel].nodes = st.nodes]
           /\ deleteFlags' = st.flags
           /\ tableModel' = [model |-> tvModel, Items |-> GetFiles(st.nodes, tvCurrent)]
           /\ lastOp' = Edit(name, tvModel, tvCurrent, flag)
           /\ lastSet' = SetBy(tvModel, tvCurrent, flag)
    /\ UNCHANGED <<disk, zipModelCache, currentZipPath, zipModel, tvModel, tvCurrent,
                   fileListModel, fileListIndex, lastFileListIndex, tasks, lastLoad,
                   tempFS, lastExtract, lastDetect, budget>>

DeleteAction ==
    /\ CanEdit
    /\ MarkDirectory(TRUE, "DeleteAction")

ClearAction ==
    /\ CanEdit
    /\ MarkDirectory(FALSE, "ClearAction")

(* FileItemModel.SetValue(row, 0, val): the check box of a file row *)
SetValue ==
    /\ CanEdit
    /\ edits' = edits + 1
    /\ tableModel.model # 0
    /\ \E row \in 0 .. Len(tableModel.Items) - 1, val \in BOOLEAN :
        LET item == tableModel.Items[row + 1]
        IN  /\ models' = [models EXCEPT ![tableModel.model].nodes[item].DeleteFlag = val]
            /\ lastOp' = Edit("SetValue", tableModel.model, item, val)
            /\ UNCHANGED lastSet
    /\ UNCHANGED <<disk, zipModelCache, deleteFlags, currentZipPath, zipModel, tvModel,
                   tvCurrent, tableModel, fileListModel, fileListIndex, lastFileListIndex,
                   tasks, lastLoad, tempFS, lastExtract, lastDetect, budget>>

(* OnMouseDown of the right table, on the check box column of row index *)
TableMouseDown ==
    /\ CanEdit
    /\ edits' = edits + 1
    /\ tvCurrent # 0
    /\ tableModel.model # 0
    /\ \E item \in Range(tableModel.Items) :
        \E st \in {UpdateDeleteFlagRecursively(currentZipPath,
                      [nodes |-> models[tableModel.model].nodes, flags |-> deleteFlags], item)} :
            /\ models' = [models EXCEPT ![tableModel.model].nodes = st.nodes]
            /\ deleteFlags' = st.flags
            /\ lastOp' = Edit("TableMouseDown", tableModel.model, item,
                               models[tableModel.model].nodes[item].DeleteFlag)
            /\ lastSet' = SetBy(tableModel.model, item,
                                models[tableModel.model].nodes[item].DeleteFlag)
    /\ UNCHANGED <<disk, zipModelCache, currentZipPath, zipModel, tvModel, tvCurrent,
                   tableModel, fileListModel, fileListIndex, lastFileListIndex, tasks,
                   lastLoad, tempFS, lastExtract, lastDetect, budget>>

(* ------------------------------------------------------------------ *)
(* fileops.ExtractFileToTemp and the ItemActivated handler             *)
(* ------------------------------------------------------------------ *)
Hyphen == 45
Digit0 == 48

(* os.MkdirTemp("", "zip-editor-"): the n-th call makes a directory of a new name *)
MkdirTemp(n) == TempDir \o <<Backslash, Hyphen, Digit0 + n>>

(* path and the directories above it *)
Ancestors(path) ==
    {path} \cup {SubSeq(path, 1, i - 1) : i \in {j \in 2 .. Len(path) : path[j] = Backslash}}

(* os.MkdirAll(path): fails when a regular file is in the way *)
MkdirAllOk(fs, path) == \A p \in Ancestors(path) \cap DOMAIN fs : fs[p].isDir

MkdirAll(fs, path) ==
    [p \in DOMAIN fs \cup Ancestors(path) |-> IF p \in DOMAIN fs THEN fs[p] ELSE Directory]

(* os.Create(path): fails when path is a directory *)
CreateOk(fs, path) == path \notin DOMAIN fs \/ ~fs[path].isDir

(* os.Create(outPath) and io.Copy(outFile, rc) *)
WriteFile(fs, path, data) == (path :> RegularFile(data)) @@ fs

(* the loop over reader.File: the first entry whose recovered name is the path, 0: nil *)
RECURSIVE FindTarget(_, _, _)
FindTarget(File, entryUTF8Path, j) ==
    IF j > Len(File) THEN 0
    ELSE IF AutoDetectEncoding(File[j].Name) = entryUTF8Path THEN j
    ELSE FindTarget(File, entryUTF8Path, j + 1)

(* a return of ExtractFileToTemp: the path and the error, and the files it leaves *)
Extracted(err, outPath, fs) == [err |-> err, outPath |-> outPath, fs |-> fs]

(* lines 224-253, target being the entry found and tempDir made *)
ExtractTarget(fs, target, outPath) ==
    IF ~MkdirAllOk(fs, Dir(outPath)) THEN Extracted("MkdirAll", <<>>, fs)
    ELSE IF ~CreateOk(MkdirAll(fs, Dir(outPath)), outPath)
        THEN Extracted("Create", <<>>, MkdirAll(fs, Dir(outPath)))
    ELSE Extracted("none", outPath, WriteFile(MkdirAll(fs, Dir(outPath)), outPath, target.Data))

(* lines 203-222, tempDir made *)
ExtractFrom(fs, tempDir, zipPath, entryUTF8Path) ==
    IF ~OpenReaderOk(zipPath) THEN Extracted("Open", <<>>, fs)
    ELSE IF FindTarget(disk[zipPath].entries, entryUTF8Path, 1) = 0
        THEN Extracted("NotExist", <<>>, fs)
    ELSE ExtractTarget(fs,
             disk[zipPath].entries[FindTarget(disk[zipPath].entries, entryUTF8Path, 1)],
             Join(tempDir, TrimLeftSeparators(FromSlash(entryUTF8Path))))

(* ExtractFileToTemp(zipPath, entryUTF8Path), the n-th call, fs being the files *)
ExtractFileToTemp(fs, n, zipPath, entryUTF8Path) ==
    ExtractFrom((MkdirTemp(n) :> Directory) @@ fs, MkdirTemp(n), zipPath, entryUTF8Path)

(* history: the call ExtractFileToTemp(zipPath, entryUTF8Path) with result r *)
Extraction(zipPath, entryUTF8Path, r) ==
    [n |-> lastExtract.n + 1, zipPath |-> zipPath, entryUTF8Path |-> entryUTF8Path,
     err |-> r.err, outPath |-> r.outPath, tempDir |-> MkdirTemp(lastExtract.n + 1),
     opened |-> OpenReaderOk(zipPath),
     target |-> IF OpenReaderOk(zipPath)
                THEN FindTarget(disk[zipPath].entries, entryUTF8Path, 1) ELSE 0]

(* tableView.ItemActivated handler, the current row of the table being row *)
ItemActivated ==
    /\ CanEdit
    /\ tvCurrent # 0
    /\ currentZipPath # <<>>
    /\ tableModel.model # 0
    /\ \E row \in 0 .. Len(tableModel.Items) - 1 :
        \E entryPath \in {GetPath(models[tableModel.model].nodes, tableModel.Items[row + 1])} :
            \E r \in {ExtractFileToTemp(tempFS, lastExtract.n + 1, currentZipPath, entryPath)} :
                /\ tempFS' = r.fs
                /\ lastExtract' = Extraction(currentZipPath, entryPath, r)
    /\ UNCHANGED <<disk, models, zipModelCache, deleteFlags, currentZipPath, zipModel,
                   tvModel, tvCurrent, tableModel, fileListModel, fileListIndex,
                   lastFileListIndex, tasks, edits, lastOp, lastSet, lastLoad, lastDetect, budget>>

(* ------------------------------------------------------------------ *)
(* fileops.DeleteFlaggedFiles, run by the goroutine of the delete      *)
(* button; tasks[t] is the goroutine's frame                           *)
(* ------------------------------------------------------------------ *)
NoFile == [exists |-> FALSE, entries |-> <<>>, complete |-> FALSE]

NewTask(zipPath) ==
    [zipPath |-> zipPath, pc |-> "begin", err |-> FALSE,
     tempDir |-> FALSE,            \* the scratch directory exists
     tempZip |-> NoFile,           \* the scratch archive temp.zip
     readerOpen |-> FALSE,         \* reader: the handle on the source archive
     File |-> <<>>,                \* reader.File
     newZipFileOpen |-> FALSE,
     zipWriterOpen |-> FALSE,
     i |-> 0,                      \* the loop index over reader.File
     \* history
     orig |-> NoFile,              \* the file at zipPath as it was when the call began
     marked |-> <<>>,              \* per entry: was it marked when the loop reached it
     failedAt |-> "none"]          \* the step whose error the call returned

(* the deferred zipWriter.Close() and newZipFile.Close() *)
CloseDeferred(task) == [task EXCEPT !.zipWriterOpen = FALSE, !.newZipFileOpen = FALSE]

(* a RemoveAll that removes nothing *)
RemoveAllKeeps(task) == task

(* the deferred os.RemoveAll(tempDir): a file that is open cannot be removed *)
RemoveAll(task) ==
    IF task.newZipFileOpen THEN task ELSE [task EXCEPT !.tempDir = FALSE, !.tempZip = NoFile]

(* a return of DeleteFlaggedFiles: the deferred calls run, the last deferred first *)
Return(task, failedAt) ==
    RemoveAll(CloseDeferred([task EXCEPT !.pc = "returned", !.err = (failedAt # "none"),
                                         !.failedAt = failedAt]))

(* header := &zip.FileHeader{Name, Method}; header.SetModTime(file.Modified) *)
SetModTime(t) == Time(t.sec, "UTC")

(* the header with the recovered name in place of the raw one *)
NewHeaderRecovered(file) ==
    [Name |-> AutoDetectEncoding(file.Name), Method |-> file.Method,
     Modified |-> SetModTime(file.Modified), Comment |-> <<>>, ExternalAttrs |-> 0]

NewHeader(file) ==
    [Name |-> file.Name, Method |-> file.Method, Modified |-> SetModTime(file.Modified),
     Comment |-> <<>>, ExternalAttrs |-> 0]

(* the payload copied as it is stored, and so compressed once more by the writer *)
WrittenEntryRaw(file) == [Data |-> file.Data + 1] @@ NewHeader(file)

(* zipWriter.CreateHeader(header) followed by io.Copy(writer, fileReader) *)
WrittenEntry(file) == [Data |-> file.Data] @@ NewHeader(file)

(* history: the store's flag for (archive path, recovered path of the entry) *)
IsMarked(zipPath, file) ==
    MapGet(deleteFlags, zipPath \o <<Colon, Colon>> \o AutoDetectEncoding(file.Name))

(* the lookup with the raw name in place of the recovered one *)
SkipsRawName(zipPath, file) == GetDeleteFlag(zipPath, file.Name)

(* lines 85-90: whether the loop skips an entry *)
Skips(zipPath, file) == GetDeleteFlag(zipPath, AutoDetectEncoding(file.Name))

taskFrame == <<models, zipModelCache, deleteFlags, currentZipPath, zipModel, tvModel,
               tvCurrent, tableModel, fileListModel, fileListIndex, lastFileListIndex,
               edits, lastOp, lastSet, lastLoad, tempFS, lastExtract, lastDetect, budget>>

(* the delete button's OnClicked handler; the user answers the question *)
DeleteButtonClicked ==
    /\ CanStart
    /\ currentZipPath # <<>>
    /\ ~IsDeleting(fileListModel, currentZipPath)
    /\ \E answer \in {"Yes", "No"} :
        IF answer = "Yes"
        THEN /\ fileListModel' = SetDeleting(fileListModel, currentZipPath, TRUE)
             /\ tasks' = Append(tasks, NewTask(currentZipPath))
        ELSE UNCHANGED <<fileListModel, tasks>>
    /\ UNCHANGED <<disk, models, zipModelCache, deleteFlags, currentZipPath, zipModel,
                   tvModel, tvCurrent, tableModel, fileListIndex, lastFileListIndex>>
    /\ UNCHANGED <<history, lastLoad, tempFS, lastExtract, lastDetect, budget>>

(* the scratch file created at zipPath in place of tempZipPath *)
RewriteBeginInPlace(t) ==
    /\ tasks[t].pc = "begin"
    /\ LET task == [tasks[t] EXCEPT !.orig = disk[tasks[t].zipPath]]
           made == [task EXCEPT !.tempDir = TRUE]
           opened == [made EXCEPT !.readerOpen = TRUE, !.File = disk[task.zipPath].entries]
       IN  \E outcome \in {"MkdirTemp", "OpenReader", "Create", "ok"} :
            /\ outcome = "ok" => OpenReaderOk(task.zipPath)
            /\ outcome = "Create" => OpenReaderOk(task.zipPath)
            /\ tasks' = [tasks EXCEPT ![t] =
                  CASE outcome = "MkdirTemp" -> Return(task, "MkdirTemp")
                    [] outcome = "OpenReader" -> Return(made, "OpenReader")
                    [] outcome = "Create" -> Return(opened, "Create")
                    [] OTHER -> [opened EXCEPT !.pc = "loop",
                                               !.tempZip = [exists |-> TRUE, entries |-> <<>>,
                                                            complete |-> FALSE],
                                               !.newZipFileOpen = TRUE,
                                               !.zipWriterOpen = TRUE]]
            /\ disk' = IF outcome = "ok"
                       THEN [disk EXCEPT ![task.zipPath] = DiskFile(<<>>, FALSE, @.modTime + 1)]
                       ELSE disk
    /\ UNCHANGED taskFrame

(* lines 56-80: the scratch directory, the reader, the scratch file, the writer *)
RewriteBegin(t) ==
    /\ tasks[t].pc = "begin"
    /\ LET task == [tasks[t] EXCEPT !.orig = disk[tasks[t].zipPath]]
           made == [task EXCEPT !.tempDir = TRUE]
           opened == [made EXCEPT !.readerOpen = TRUE, !.File = disk[task.zipPath].entries]
       IN  \E outcome \in {"MkdirTemp", "OpenReader", "Create", "ok"} :
            /\ outcome = "ok" => OpenReaderOk(task.zipPath)
            /\ outcome = "Create" => OpenReaderOk(task.zipPath)
            /\ tasks' = [tasks EXCEPT ![t] =
                  CASE outcome = "MkdirTemp" -> Return(task, "MkdirTemp")
                    [] outcome = "OpenReader" -> Return(made, "OpenReader")
                    [] outcome = "Create" -> Return(opened, "Create")
                    [] OTHER -> [opened EXCEPT !.pc = "loop",
                                               !.tempZip = [exists |-> TRUE, entries |-> <<>>,
                                                            complete |-> FALSE],
                                               !.newZipFileOpen = TRUE,
                                               !.zipWriterOpen = TRUE]]
    /\ UNCHANGED <<disk>>
    /\ UNCHANGED taskFrame

(* lines 83-117: one iteration of the loop over reader.File *)
RewriteEntry(t) ==
    /\ tasks[t].pc = "loop"
    /\ tasks[t].i < Len(tasks[t].File)
    /\ \E file \in {tasks[t].File[tasks[t].i + 1]} :
       \E skip \in {Skips(tasks[t].zipPath, file)} :
       \E next \in {[tasks[t] EXCEPT !.i = @ + 1,
                                     !.marked = Append(@, IsMarked(tasks[t].zipPath, file))]} :
           IF skip
           THEN tasks' = [tasks EXCEPT ![t] = next]
           ELSE \E outcome \in {"Open", "CreateHeader", "Copy", "ok"} :
                   tasks' = [tasks EXCEPT ![t] =
                       IF outcome = "ok"
                       THEN [next EXCEPT !.tempZip.entries = Append(@, WrittenEntry(file))]
                       ELSE Return(next, outcome)]
    /\ UNCHANGED <<disk>>
    /\ UNCHANGED taskFrame

(* the closes without reader.Close() *)
RewriteCloseKeepsReader(t) ==
    /\ tasks[t].pc = "loop"
    /\ tasks[t].i = Len(tasks[t].File)
    /\ \E outcome \in {"CloseWriter", "CloseFile", "ok"} :
        tasks' = [tasks EXCEPT ![t] =
            IF outcome = "ok"
            THEN [@ EXCEPT !.pc = "copyFile", !.tempZip.complete = TRUE,
                           !.zipWriterOpen = FALSE, !.newZipFileOpen = FALSE]
            ELSE Return(@, outcome)]
    /\ UNCHANGED <<disk>>
    /\ UNCHANGED taskFrame

(* lines 119-132: close the writer, the scratch file and the reader *)
RewriteClose(t) ==
    /\ tasks[t].pc = "loop"
    /\ tasks[t].i = Len(tasks[t].File)
    /\ \E outcome \in {"CloseWriter", "CloseFile", "ok"} :
        tasks' = [tasks EXCEPT ![t] =
            IF outcome = "ok"
            THEN [@ EXCEPT !.pc = "copyFile", !.tempZip.complete = TRUE,
                           !.zipWriterOpen = FALSE, !.newZipFileOpen = FALSE,
                           !.readerOpen = FALSE]
            ELSE Return(@, outcome)]
    /\ UNCHANGED <<disk>>
    /\ UNCHANGED taskFrame

(* the modification time a write leaves on a file whose time was modTime: the time of
   the clock, which is a later tick or, for a write within one tick, the same one *)
WriteTimes(modTime) == {modTime, modTime + 1}

(* copyFile, lines 151-164: os.Open(src), os.Create(dst) *)
CopyFileCreate(t) ==
    /\ tasks[t].pc = "copyFile"
    /\ \E outcome \in {"CopyOpen", "CopyCreate", "ok"} :
        IF outcome = "ok"
        THEN /\ \E now \in WriteTimes(disk[tasks[t].zipPath].modTime) :
                    disk' = [disk EXCEPT ![tasks[t].zipPath] = DiskFile(<<>>, FALSE, now)]
             /\ tasks' = [tasks EXCEPT ![t].pc = "copy"]
        ELSE /\ tasks' = [tasks EXCEPT ![t] = Return(@, outcome)]
             /\ UNCHANGED disk
    /\ UNCHANGED taskFrame

(* copyFile, lines 166-178: io.Copy and Sync; then lines 140-147 *)
CopyFileWrite(t) ==
    /\ tasks[t].pc = "copy"
    /\ LET src == tasks[t].tempZip
           dst == disk[tasks[t].zipPath]
       IN  \/ \E k \in 0 .. Len(src.entries), now \in WriteTimes(dst.modTime) :
                /\ disk' = [disk EXCEPT ![tasks[t].zipPath] =
                               DiskFile(SubSeq(src.entries, 1, k), FALSE, now)]
                /\ tasks' = [tasks EXCEPT ![t] = Return(@, "CopyWrite")]
           \/ \E outcome \in {"Sync", "none"}, now \in WriteTimes(dst.modTime) :
                /\ disk' = [disk EXCEPT ![tasks[t].zipPath] =
                               DiskFile(src.entries, TRUE, now)]
                /\ tasks' = [tasks EXCEPT ![t] = Return(@, outcome)]
    /\ UNCHANGED taskFrame

(* the completion that clears the deleting state on success only *)
CompletionKeepsDeleting(t) ==
    /\ tasks[t].pc = "returned"
    /\ \E targetZip \in {tasks[t].zipPath}, r \in {LoadZipFile(tasks[t].zipPath)} :
           /\ fileListModel' = IF tasks[t].err THEN fileListModel
                               ELSE SetDeleting(fileListModel, targetZip, FALSE)
           /\ tasks' = [tasks EXCEPT ![t].pc = "finished"]
           /\ IF tasks[t].err \/ currentZipPath # targetZip
              THEN UNCHANGED <<models, zipModelCache, zipModel, tvModel, tvCurrent, lastLoad>>
              ELSE /\ lastLoad' = Loaded(targetZip, r)
                   /\ zipModel' = r.model
                   /\ models' = r.models
                   /\ zipModelCache' = r.cache
                   /\ IF r.err THEN UNCHANGED <<tvModel, tvCurrent>>
                      ELSE tvModel' = r.model /\ tvCurrent' = 0
    /\ UNCHANGED <<disk, deleteFlags, currentZipPath, tableModel, fileListIndex,
                   lastFileListIndex>>
    /\ UNCHANGED <<history, tempFS, lastExtract, lastDetect, budget>>

(* the completion that also empties the flag store *)
CompletionClearsFlags(t) ==
    /\ tasks[t].pc = "returned"
    /\ \E targetZip \in {tasks[t].zipPath}, r \in {LoadZipFile(tasks[t].zipPath)} :
           /\ fileListModel' = SetDeleting(fileListModel, targetZip, FALSE)
           /\ tasks' = [tasks EXCEPT ![t].pc = "finished"]
           /\ IF tasks[t].err \/ currentZipPath # targetZip
              THEN UNCHANGED <<models, zipModelCache, zipModel, tvModel, tvCurrent, lastLoad>>
              ELSE /\ lastLoad' = Loaded(targetZip, r)
                   /\ zipModel' = r.model
                   /\ models' = r.models
                   /\ zipModelCache' = r.cache
                   /\ IF r.err THEN UNCHANGED <<tvModel, tvCurrent>>
                      ELSE tvModel' = r.model /\ tvCurrent' = 0
    /\ deleteFlags' = EmptyMap
    /\ UNCHANGED <<disk, currentZipPath, tableModel, fileListIndex, lastFileListIndex>>
    /\ UNCHANGED <<history, tempFS, lastExtract, lastDetect, budget>>

(* the function handed to mw.Synchronize when DeleteFlaggedFiles has returned *)
Completion(t) ==
    /\ tasks[t].pc = "returned"
    /\ \E targetZip \in {tasks[t].zipPath}, r \in {LoadZipFile(tasks[t].zipPath)} :
           /\ fileListModel' = SetDeleting(fileListModel, targetZip, FALSE)
           /\ tasks' = [tasks EXCEPT ![t].pc = "finished"]
           /\ IF tasks[t].err \/ currentZipPath # targetZip
              THEN UNCHANGED <<models, zipModelCache, zipModel, tvModel, tvCurrent, lastLoad>>
              ELSE /\ lastLoad' = Loaded(targetZip, r)
                   /\ zipModel' = r.model
                   /\ models' = r.models
                   /\ zipModelCache' = r.cache
                   /\ IF r.err THEN UNCHANGED <<tvModel, tvCurrent>>
                      ELSE tvModel' = r.model /\ tvCurrent' = 0
    /\ UNCHANGED <<disk, deleteFlags, currentZipPath, tableModel, fileListIndex,
                   lastFileListIndex>>
    /\ UNCHANGED <<history, tempFS, lastExtract, lastDetect, budget>>

Next ==
    \/ DropFiles
    \/ FileListSelect
    \/ TreeSelect
    \/ DeleteAction
    \/ ClearAction
    \/ SetValue
    \/ TableMouseDown
    \/ ItemActivated
    \/ DeleteButtonClicked
    \/ \E t \in DOMAIN tasks : RewriteBegin(t)
    \/ \E t \in DOMAIN tasks : RewriteEntry(t)
    \/ \E t \in DOMAIN tasks : RewriteClose(t)
    \/ \E t \in DOMAIN tasks : CopyFileCreate(t)
    \/ \E t \in DOMAIN tasks : CopyFileWrite(t)
    \/ \E t \in DOMAIN tasks : Completion(t)

Spec == Init /\ [][Next]_vars

(* the handlers that load an archive, that call UpdateDeleteFlagRecursively and that
   start a rewrite, and the goroutines *)
StoreNext ==
    \/ DropFiles
    \/ FileListSelect
    \/ TreeSelect
    \/ DeleteAction
    \/ ClearAction
    \/ TableMouseDown
    \/ DeleteButtonClicked
    \/ \E t \in DOMAIN tasks : RewriteBegin(t)
    \/ \E t \in DOMAIN tasks : RewriteEntry(t)
    \/ \E t \in DOMAIN tasks : RewriteClose(t)
    \/ \E t \in DOMAIN tasks : CopyFileCreate(t)
    \/ \E t \in DOMAIN tasks : CopyFileWrite(t)
    \/ \E t \in DOMAIN tasks : Completion(t)

StoreSpec == Init /\ [][StoreNext]_vars

(* ------------------------------------------------------------------ *)
(* setDeleteFlag and GetDeleteFlag on strings with and without "::"   *)
(* ------------------------------------------------------------------ *)
KeyZipPaths == {<<ChZ>>, <<ChZ, Colon, Colon>>, <<ChZ, Colon, Colon, ChZ>>}

KeyFilePaths == {<<ChZ>>, <<Colon, Colon, ChZ>>, <<ChZ, Colon, Colon, ChZ>>}

(* setDeleteFlag(zipPath, filePath, flag); history: the flag by pair *)
SetFlagCall ==
    /\ CanEdit
    /\ edits' = edits + 1
    /\ \E zipPath \in KeyZipPaths, filePath \in KeyFilePaths, flag \in BOOLEAN :
          /\ deleteFlags' = setDeleteFlag(deleteFlags, zipPath, filePath, flag)
          /\ lastSet' = (<<zipPath, filePath>> :> flag) @@ lastSet
    /\ UNCHANGED <<disk, models, zipModelCache, currentZipPath, zipModel, tvModel,
                   tvCurrent, tableModel, fileListModel, fileListIndex, lastFileListIndex,
                   tasks, lastOp, lastLoad, tempFS, lastExtract, lastDetect, budget>>

KeySpec == Init /\ [][SetFlagCall]_vars

(* ------------------------------------------------------------------ *)
(* LoadZipFile on the archives of a bounded family                    *)
(* ------------------------------------------------------------------ *)
MaxEntries == 3

(* entry names: a directory entry, files below directories that have and have not an
   entry of their own, a root file, a Shift-JIS name, a name with a backslash, with a
   "." component, with a leading slash *)
NamePool ==
    {<<ChA, Slash>>, <<ChA, Slash, ChB, Slash, ChX>>, <<ChA, Slash, ChY>>, <<ChZ>>,
     <<ChA, Slash, KanaByte>>, <<ChA, Backslash, ChY>>, <<Dot, Slash, ChZ>>,
     <<Slash, ChZ>>}

NameLists == UNION {[1 .. n -> NamePool] : n \in 0 .. MaxEntries}

(* the archive whose j-th entry has the j-th name, a time and a payload of its own *)
ArchiveOf(names) ==
    [j \in DOMAIN names |-> Entry(names[j], Store, Time(10 * j, "UTC"), <<>>, 0, j)]

TreeInit ==
    /\ disk \in {Files(ArchiveOf(names), ArchiveB) : names \in NameLists}
    /\ models = <<>>
    /\ zipModelCache = EmptyMap
    /\ deleteFlags = EmptyMap
    /\ currentZipPath = <<>>
    /\ zipModel = 0
    /\ tvModel = 0
    /\ tvCurrent = 0
    /\ tableModel = NoTable
    /\ fileListModel = [paths |-> <<>>, deleting |-> EmptyMap]
    /\ fileListIndex = -1
    /\ lastFileListIndex = -1
    /\ tasks = <<>>
    /\ edits = 0
    /\ lastOp = NoOp
    /\ lastSet = EmptyMap
    /\ lastLoad = NoLoad
    /\ tempFS = NoTemp
    /\ lastExtract = NoExtract
    /\ lastDetect = NoDetect
    /\ budget = MaxOps

(* the handlers that load and show an archive *)
TreeNext ==
    \/ DropFiles
    \/ FileListSelect
    \/ TreeSelect

TreeSpec == TreeInit /\ [][TreeNext]_vars

(* ------------------------------------------------------------------ *)
(* ExtractFileToTemp on the archives of a family                      *)
(* ------------------------------------------------------------------ *)
(* the entry names of the archives: one file; files below directories; two entries of
   one name; a directory entry and a Shift-JIS name; a name with a "." component beside
   the clean one; a name with a backslash; a name with a ".." component *)
ExtractNames ==
    {<<<<ChZ>>>>,
     <<<<ChA, Slash, ChB, Slash, ChX>>, <<ChA, Slash, ChY>>>>,
     <<<<ChA, Slash, ChY>>, <<ChZ>>, <<ChA, Slash, ChY>>>>,
     <<<<ChA, Slash>>, <<ChA, Slash, KanaByte>>>>,
     <<<<Dot, Slash, ChZ>>, <<ChZ>>>>,
     <<<<ChA, Backslash, ChY>>>>,
     <<<<Slash, ChZ>>>>,
     <<<<Dot, Dot, Slash, ChZ>>, <<ChZ>>>>}

ExtractInit ==
    /\ disk \in {Files(ArchiveOf(names), ArchiveB) : names \in ExtractNames}
    /\ models = <<>>
    /\ zipModelCache = EmptyMap
    /\ deleteFlags = EmptyMap
    /\ currentZipPath = <<>>
    /\ zipModel = 0
    /\ tvModel = 0
    /\ tvCurrent = 0
    /\ tableModel = NoTable
    /\ fileListModel = [paths |-> <<>>, deleting |-> EmptyMap]
    /\ fileListIndex = -1
    /\ lastFileListIndex = -1
    /\ tasks = <<>>
    /\ edits = 0
    /\ lastOp = NoOp
    /\ lastSet = EmptyMap
    /\ lastLoad = NoLoad
    /\ tempFS = NoTemp
    /\ lastExtract = NoExtract
    /\ lastDetect = NoDetect
    /\ budget = MaxOps

(* the handlers that load and show an archive and open a file of it *)
ExtractNext ==
    \/ DropFiles
    \/ FileListSelect
    \/ TreeSelect
    \/ ItemActivated

ExtractSpec == ExtractInit /\ [][ExtractNext]_vars

(* ------------------------------------------------------------------ *)
(* AutoDetectEncoding on the strings of a bounded family               *)
(* ------------------------------------------------------------------ *)
MaxLen == 3

Nul == 0
LeadByte == 129
ContByte == 169
LatinLead == 195

(* the bytes of the strings: a control character, a tab, a letter, a lead byte of the
   double-byte encodings, the two bytes of a two-byte UTF-8 sequence, a half-width kana
   of Shift-JIS *)
NameBytes == {Nul, Tab, ChA, LeadByte, ContByte, LatinLead, KanaByte}

Inputs == UNION {[1 .. n -> NameBytes] : n \in 0 .. MaxLen}

(* the string a call is about to be made with *)
Pending(input) == [called |-> FALSE, input |-> input]

DetectInit ==
    /\ lastDetect \in {Pending(input) : input \in Inputs}
    /\ disk = Files(ArchiveA, ArchiveB)
    /\ models = <<>>
    /\ zipModelCache = EmptyMap
    /\ deleteFlags = EmptyMap
    /\ currentZipPath = <<>>
    /\ zipModel = 0
    /\ tvModel = 0
    /\ tvCurrent = 0
    /\ tableModel = NoTable
    /\ fileListModel = [paths |-> <<>>, deleting |-> EmptyMap]
    /\ fileListIndex = -1
    /\ lastFileListIndex = -1
    /\ tasks = <<>>
    /\ edits = 0
    /\ lastOp = NoOp
    /\ lastSet = EmptyMap
    /\ lastLoad = NoLoad
    /\ tempFS = NoTemp
    /\ lastExtract = NoExtract
    /\ budget = MaxOps

(* the call AutoDetectEncoding(input) *)
DetectCall ==
    /\ ~lastDetect.called
    /\ lastDetect' = [called |-> TRUE, input |-> lastDetect.input,
                      result |-> Detect(lastDetect.input)]
    /\ UNCHANGED <<disk, models, zipModelCache, deleteFlags, currentZipPath, zipModel,
                   tvModel, tvCurrent, tableModel, fileListModel, fileListIndex,
                   lastFileListIndex, tasks, edits, lastOp, lastSet, lastLoad, tempFS,
                   lastExtract, budget>>

DetectSpec == DetectInit /\ [][DetectCall]_vars

(* ------------------------------------------------------------------ *)
(* Rewrites started one after another and side by side: the budget    *)
(* is that of Spec and one rewrite more                               *)
(* ------------------------------------------------------------------ *)
RewriteInit ==
    /\ budget = MaxOps + RewriteCost
    /\ disk = Files(ArchiveA, ArchiveB)
    /\ models = <<>>
    /\ zipModelCache = EmptyMap
    /\ deleteFlags = EmptyMap
    /\ currentZipPath = <<>>
    /\ zipModel = 0
    /\ tvModel = 0
    /\ tvCurrent = 0
    /\ tableModel = NoTable
    /\ fileListModel = [paths |-> <<>>, deleting |-> EmptyMap]
    /\ fileListIndex = -1
    /\ lastFileListIndex = -1
    /\ tasks = <<>>
    /\ edits = 0
    /\ lastOp = NoOp
    /\ lastSet = EmptyMap
    /\ lastLoad = NoLoad
    /\ tempFS = NoTemp
    /\ lastExtract = NoExtract
    /\ lastDetect = NoDetect

(* the handlers that show an archive and start a rewrite, and the goroutines *)
RewriteNext ==
    \/ DropFiles
    \/ FileListSelect
    \/ DeleteButtonClicked
    \/ \E t \in DOMAIN tasks : RewriteBegin(t)
    \/ \E t \in DOMAIN tasks : RewriteEntry(t)
    \/ \E t \in DOMAIN tasks : RewriteClose(t)
    \/ \E t \in DOMAIN tasks : CopyFileCreate(t)
    \/ \E t \in DOMAIN tasks : CopyFileWrite(t)
    \/ \E t \in DOMAIN tasks : Completion(t)

RewriteSpec == RewriteInit /\ [][RewriteNext]_vars

(* the window after construction, and a user who marks one directory and then confirms
   two rewrites *)
RepeatInit ==
    /\ budget = 1 + 2 * RewriteCost
    /\ disk = Files(ArchiveA, ArchiveB)
    /\ models = <<>>
    /\ zipModelCache = EmptyMap
    /\ deleteFlags = EmptyMap
    /\ currentZipPath = <<>>
    /\ zipModel = 0
    /\ tvModel = 0
    /\ tvCurrent = 0
    /\ tableModel = NoTable
    /\ fileListModel = [paths |-> <<>>, deleting |-> EmptyMap]
    /\ fileListIndex = -1
    /\ lastFileListIndex = -1
    /\ tasks = <<>>
    /\ edits = 0
    /\ lastOp = NoOp
    /\ lastSet = EmptyMap
    /\ lastLoad = NoLoad
    /\ tempFS = NoTemp
    /\ lastExtract = NoExtract
    /\ lastDetect = NoDetect

(* no rewrite is running *)
Idle == \A t \in DOMAIN tasks : tasks[t].pc = "finished"

(* a user who drops files once, marks one directory, rewrites an archive, waits for the
   rewrite to end and rewrites the archive again: the handlers and the goroutines *)
RepeatNext ==
    \/ (fileListModel.paths = <<>> /\ DropFiles)
    \/ (Idle /\ FileListSelect)
    \/ (Idle /\ TreeSelect)
    \/ (edits = 0 /\ tasks = <<>> /\ DeleteAction)
    \/ (/\ edits = 1
        /\ Idle
        /\ \A t \in DOMAIN tasks : tasks[t].zipPath = currentZipPath
        /\ DeleteButtonClicked)
    \/ \E t \in DOMAIN tasks : RewriteBegin(t)
    \/ \E t \in DOMAIN tasks : RewriteEntry(t)
    \/ \E t \in DOMAIN tasks : RewriteClose(t)
    \/ \E t \in DOMAIN tasks : CopyFileCreate(t)
    \/ \E t \in DOMAIN tasks : CopyFileWrite(t)
    \/ \E t \in DOMAIN tasks : Completion(t)

RepeatSpec == RepeatInit /\ [][RepeatNext]_vars

(* the goroutines a behaviour can start *)
TaskIds == 1 .. ((MaxOps + RewriteCost) \div RewriteCost)

(* a step of goroutine t, or the function it handed to mw.Synchronize *)
TaskStep(t) ==
    /\ t \in DOMAIN tasks
    /\ \/ RewriteBegin(t)
       \/ RewriteEntry(t)
       \/ RewriteClose(t)
       \/ CopyFileCreate(t)
       \/ CopyFileWrite(t)
       \/ Completion(t)

(* the window after construction, two small archives on the disk, and a user who
   confirms one rewrite *)
CompletionInit ==
    /\ budget = RewriteCost
    /\ disk = Files(ArchiveB, ArchiveB)
    /\ models = <<>>
    /\ zipModelCache = EmptyMap
    /\ deleteFlags = EmptyMap
    /\ currentZipPath = <<>>
    /\ zipModel = 0
    /\ tvModel = 0
    /\ tvCurrent = 0
    /\ tableModel = NoTable
    /\ fileListModel = [paths |-> <<>>, deleting |-> EmptyMap]
    /\ fileListIndex = -1
    /\ lastFileListIndex = -1
    /\ tasks = <<>>
    /\ edits = 0
    /\ lastOp = NoOp
    /\ lastSet = EmptyMap
    /\ lastLoad = NoLoad
    /\ tempFS = NoTemp
    /\ lastExtract = NoExtract
    /\ lastDetect = NoDetect

(* the scheduler runs a goroutine that can run, and the message loop of the UI thread
   runs a function handed to mw.Synchronize *)
CompletionSpec ==
    CompletionInit /\ [][RewriteNext]_vars /\ \A t \in TaskIds : WF_vars(TaskStep(t))

(* ------------------------------------------------------------------ *)
(* Properties of DeleteFlaggedFiles                                   *)
(* ------------------------------------------------------------------ *)
(* the entries of the source archive that were not marked when the loop reached them *)
RECURSIVE KeptOf(_, _)
KeptOf(entries, marked) ==
    IF entries = <<>> \/ marked = <<>> THEN <<>>
    ELSE (IF marked[1] THEN <<>> ELSE <<entries[1]>>) \o KeptOf(Tail(entries), Tail(marked))

(* an entry is told from the others by its raw name and its payload *)
Ids(entries) == [j \in 1 .. Len(entries) |-> <<entries[j].Name, entries[j].Data>>]

Succeeded(t) == tasks[t].pc = "returned" /\ ~tasks[t].err

(* C1: when DeleteFlaggedFiles(zipPath) has returned without error, the archive at
   zipPath is a complete archive holding exactly the entries of the source archive whose
   flag, looked up under the recovered path, was false, in the order of the source. *)
C1_ExactlyUnmarkedKept ==
    \A t \in DOMAIN tasks :
        Succeeded(t) =>
            /\ disk[tasks[t].zipPath].complete
            /\ Len(tasks[t].marked) = Len(tasks[t].orig.entries)
            /\ Ids(disk[tasks[t].zipPath].entries)
                   = Ids(KeptOf(tasks[t].orig.entries, tasks[t].marked))

(* a successful rewrite that dropped a marked entry and kept two others *)
C1_Witness ==
    \E t \in DOMAIN tasks :
        /\ Succeeded(t)
        /\ \E j \in DOMAIN tasks[t].marked : tasks[t].marked[j]
        /\ Len(disk[tasks[t].zipPath].entries) >= 2

(* C2: all-or-nothing. From the call on, the file at zipPath is at every moment a
   complete archive, either the original or the fully written replacement. *)
C2_AllOrNothing ==
    \A t \in DOMAIN tasks :
        tasks[t].pc \in {"loop", "copyFile", "copy", "returned"} =>
            /\ disk[tasks[t].zipPath].complete
            /\ \/ disk[tasks[t].zipPath].entries = tasks[t].orig.entries
               \/ /\ Len(tasks[t].marked) = Len(tasks[t].orig.entries)
                  /\ Ids(disk[tasks[t].zipPath].entries)
                         = Ids(KeptOf(tasks[t].orig.entries, tasks[t].marked))

(* the steps of DeleteFlaggedFiles that come before the call of copyFile *)
BeforeReplace ==
    {"MkdirTemp", "OpenReader", "Create", "Open", "CreateHeader", "Copy",
     "CloseWriter", "CloseFile"}

(* C3: when DeleteFlaggedFiles fails at a step before the replace step, it returns an
   error and the file at zipPath is what it was when the call began. *)
C3_FailureLeavesOriginal ==
    \A t \in DOMAIN tasks :
        (tasks[t].pc = "returned" /\ tasks[t].failedAt \in BeforeReplace) =>
            /\ tasks[t].err
            /\ disk[tasks[t].zipPath] = tasks[t].orig

(* a call that failed inside the loop after it had gone through an entry *)
C3_Witness ==
    \E t \in DOMAIN tasks :
        /\ tasks[t].pc = "returned"
        /\ tasks[t].failedAt \in {"Open", "CreateHeader", "Copy"}
        /\ tasks[t].i >= 2

(* the scratch archive is finished: every entry gone through, the kept ones written,
   the writer and the scratch file closed, the reader closed *)
ScratchFinished(task) ==
    /\ task.i = Len(task.File)
    /\ task.File = task.orig.entries
    /\ Ids(task.tempZip.entries) = Ids(KeptOf(task.orig.entries, task.marked))
    /\ task.tempZip.complete
    /\ ~task.zipWriterOpen
    /\ ~task.newZipFileOpen
    /\ ~task.readerOpen

(* C4: a step that modifies a file on disk is a step of the replace step of a call for
   that file, and is taken only when the scratch archive is finished. *)
C4_ReplaceComesLast ==
    [][\A path \in DOMAIN disk :
          disk'[path] # disk[path] =>
              \E t \in DOMAIN tasks :
                  /\ tasks[t].zipPath = path
                  /\ tasks[t].pc \in {"copyFile", "copy"}
                  /\ ScratchFinished(tasks[t])]_vars

(* the original has just been truncated, the scratch archive holds an entry *)
C4_Witness ==
    \E t \in DOMAIN tasks :
        /\ tasks[t].pc = "copy"
        /\ disk[tasks[t].zipPath] # tasks[t].orig
        /\ Len(tasks[t].tempZip.entries) >= 1

(* C5: every entry kept by a successful rewrite has the raw name, the compression
   method, the modification instant and the payload it had in the source. *)
C5_KeptEntriesPreserved ==
    \A t \in DOMAIN tasks :
        Succeeded(t) =>
            LET kept == KeptOf(tasks[t].orig.entries, tasks[t].marked)
                now == disk[tasks[t].zipPath].entries
            IN  /\ Len(now) = Len(kept)
                /\ \A j \in 1 .. Len(now) :
                      /\ now[j].Name = kept[j].Name
                      /\ now[j].Method = kept[j].Method
                      /\ now[j].Modified.sec = kept[j].Modified.sec
                      /\ now[j].Data = kept[j].Data

(* a successful rewrite kept the deflated entry whose raw name is not UTF-8 and whose
   timestamp was in local time *)
C5_Witness ==
    \E t \in DOMAIN tasks :
        /\ Succeeded(t)
        /\ \E j \in DOMAIN disk[tasks[t].zipPath].entries :
              /\ disk[tasks[t].zipPath].entries[j].Name = <<ChA, Slash, KanaByte>>
              /\ disk[tasks[t].zipPath].entries[j].Method = Deflate
              /\ tasks[t].orig.entries[2].Modified.loc = "Local"

(* C6: every entry kept by a successful rewrite has all the metadata it had in the
   source: the comment and the external attributes too. *)
C6_AllMetadataKept ==
    \A t \in DOMAIN tasks :
        Succeeded(t) =>
            LET kept == KeptOf(tasks[t].orig.entries, tasks[t].marked)
                now == disk[tasks[t].zipPath].entries
            IN  \A j \in 1 .. Len(now) :
                    /\ j <= Len(kept)
                    /\ now[j].Comment = kept[j].Comment
                    /\ now[j].ExternalAttrs = kept[j].ExternalAttrs

(* ------------------------------------------------------------------ *)
(* Properties of the flags                                            *)
(* ------------------------------------------------------------------ *)
(* the tree and the subtree the last edit was about *)
LastNodes == models[lastOp.model].nodes

LastSubtree == Subtree(LastNodes, lastOp.item)

(* C7: after the delete or the clear action on a directory (item.DeleteFlag = flag, then
   UpdateDeleteFlagRecursively), the directory and every file and directory below it
   have DeleteFlag = flag and a store value equal to flag. *)
C7_RecursivePropagation ==
    lastOp.op \in {"DeleteAction", "ClearAction"} =>
        \A n \in LastSubtree :
            /\ LastNodes[n].DeleteFlag = lastOp.flag
            /\ GetDeleteFlag(lastOp.zipPath, GetPath(LastNodes, n)) = lastOp.flag

(* a directory with a file, a subdirectory and a file in the subdirectory was marked *)
C7_Witness ==
    /\ lastOp.op = "DeleteAction"
    /\ GetFiles(LastNodes, lastOp.item) # <<>>
    /\ \E c \in Range(GetChildren(LastNodes, lastOp.item)) : GetFiles(LastNodes, c) # <<>>
    /\ Cardinality(LastSubtree) >= 4

(* C8: the clear action on a directory right after the delete action on it leaves every
   node of the subtree with DeleteFlag false and a false store value, whatever was marked
   below the directory before the delete action. *)
C8_MarkThenClearRestores ==
    (lastOp.op = "ClearAction" /\ lastOp.follows # "other") =>
        \A n \in LastSubtree :
            /\ ~LastNodes[n].DeleteFlag
            /\ ~GetDeleteFlag(lastOp.zipPath, GetPath(LastNodes, n))

(* a directory was marked while a node below it was marked already, then cleared *)
C8_Witness ==
    /\ lastOp.op = "ClearAction"
    /\ lastOp.follows = "dirty mark"
    /\ Cardinality(LastSubtree) >= 2

(* the store keys of the subtree the next edit is about *)
EditedKeys ==
    {getDeleteFlagKey(lastOp'.zipPath, GetPath(models[lastOp'.model].nodes, n)) :
        n \in Subtree(models[lastOp'.model].nodes, lastOp'.item)}

(* the nodes other than those of the subtree the next edit is about are as they were *)
OthersKept ==
    /\ Len(models') = Len(models)
    /\ \A k \in DOMAIN models : \A n \in DOMAIN models[k].nodes :
          (k # lastOp'.model \/ n \notin Subtree(models[k].nodes, lastOp'.item)) =>
              /\ models'[k].nodes[n] = models[k].nodes[n]
              /\ k = lastOp'.model =>
                    GetDeleteFlagIn(deleteFlags', lastOp'.zipPath, GetPath(models[k].nodes, n))
                        = GetDeleteFlag(lastOp'.zipPath, GetPath(models[k].nodes, n))

(* C9: UpdateDeleteFlagRecursively(zipPath, item) changes neither the DeleteFlag nor the
   store entry of a node outside the subtree of item, and no other store key; the toggle
   of one file changes the flag of that file alone, and then its store entry alone. *)
C9_Frame ==
    [][edits' # edits =>
          /\ OthersKept
          /\ lastOp'.op \in {"DeleteAction", "ClearAction", "TableMouseDown"} =>
                \A key \in DOMAIN deleteFlags' :
                    key \notin EditedKeys =>
                        key \in DOMAIN deleteFlags /\ deleteFlags'[key] = deleteFlags[key]
          /\ lastOp'.op = "TableMouseDown" => models' = models
          /\ lastOp'.op = "SetValue" => deleteFlags' = deleteFlags]_vars

(* one file was toggled on and recorded; its directory is marked nowhere *)
C9_Witness ==
    /\ lastOp.op = "TableMouseDown"
    /\ lastOp.flag
    /\ ~IsDir(LastNodes, lastOp.item)
    /\ GetDeleteFlag(lastOp.zipPath, GetPath(LastNodes, lastOp.item))
    /\ LastNodes[lastOp.item].parent # 0
    /\ ~LastNodes[LastNodes[lastOp.item].parent].DeleteFlag
    /\ ~GetDeleteFlag(lastOp.zipPath, GetPath(LastNodes, LastNodes[lastOp.item].parent))

(* the paths the store is asked about: those of the nodes, and one that is never set *)
AskedPaths ==
    {<<ChZ>>} \cup UNION {{GetPath(models[k].nodes, n) : n \in DOMAIN models[k].nodes} :
                             k \in DOMAIN models}

(* C10: GetDeleteFlag(zipPath, filePath) is false when the pair was never set, and is
   the value of the last setDeleteFlag for the pair otherwise. *)
C10_StoreReadsLastSet ==
    \A zipPath \in ZipPaths, filePath \in AskedPaths :
        GetDeleteFlag(zipPath, filePath)
            = IF <<zipPath, filePath>> \in DOMAIN lastSet
              THEN lastSet[<<zipPath, filePath>>]
              ELSE FALSE

(* one pair was last set to true, another to false, a third was never set *)
C10_Witness ==
    /\ \E pair \in DOMAIN lastSet : lastSet[pair]
    /\ \E pair \in DOMAIN lastSet : ~lastSet[pair]
    /\ \E zipPath \in ZipPaths, filePath \in AskedPaths :
          <<zipPath, filePath>> \notin DOMAIN lastSet

(* ------------------------------------------------------------------ *)
(* Properties of LoadZipFile                                          *)
(* ------------------------------------------------------------------ *)
(* the step is a call of LoadZipFile, recorded in lastLoad *)
Loads == lastLoad' # lastLoad

(* the file nodes of a tree *)
FileNodes(nodes) == {n \in DOMAIN nodes : ~nodes[n].isDir}

(* C11: LoadZipFile(filePath) returns the model the cache holds for filePath, the very
   object with the flags of its nodes as they are, without opening the archive and
   without touching the cache, if and only if the cache has an entry for filePath whose
   stored modification time equals the modification time of the file on disk. *)
C11_CacheHit ==
    [][Loads =>
          /\ lastLoad'.fresh <=>
                (~lastLoad'.err /\ lastLoad'.had # 0 /\ lastLoad'.model = lastLoad'.had
                    /\ ~lastLoad'.opened)
          /\ lastLoad'.fresh =>
                /\ models' = models
                /\ zipModelCache' = zipModelCache
                /\ zipModel' = zipModelCache[lastLoad'.path]]_vars

(* a load answered from the cache, by a model that has a marked node *)
C11_Witness ==
    /\ lastLoad.path # <<>>
    /\ lastLoad.fresh
    /\ ~lastLoad.err
    /\ ~lastLoad.opened
    /\ \E n \in DOMAIN models[lastLoad.model].nodes : models[lastLoad.model].nodes[n].DeleteFlag

(* C12: when the cache has no entry for filePath or one with another modification time,
   and the archive can be read, LoadZipFile builds a new model from the archive (new
   nodes, none marked, one file node per file entry), stores it in the cache under
   filePath with the modification time it observed, leaves the other entries alone and
   returns it; after every successful call the cache entry for filePath is the model
   that was returned. *)
C12_CacheMiss ==
    [][Loads =>
          /\ ~lastLoad'.err =>
                /\ lastLoad'.path \in DOMAIN zipModelCache'
                /\ zipModelCache'[lastLoad'.path] = lastLoad'.model
                /\ zipModel' = lastLoad'.model
          /\ (~lastLoad'.fresh /\ lastLoad'.readable) =>
                /\ ~lastLoad'.err
                /\ lastLoad'.opened
                /\ lastLoad'.model = Len(models) + 1
                /\ models' = Append(models, models'[lastLoad'.model])
                /\ models'[lastLoad'.model].zipPath = lastLoad'.path
                /\ models'[lastLoad'.model].zipModTime = disk[lastLoad'.path].modTime
                /\ \A n \in DOMAIN models'[lastLoad'.model].nodes :
                      ~models'[lastLoad'.model].nodes[n].DeleteFlag
                /\ Cardinality(FileNodes(models'[lastLoad'.model].nodes))
                      = Cardinality({j \in DOMAIN disk[lastLoad'.path].entries :
                                        ~HasSuffixSlash(disk[lastLoad'.path].entries[j].Name)})
                /\ \A path \in DOMAIN zipModelCache' :
                      path # lastLoad'.path =>
                          /\ path \in DOMAIN zipModelCache
                          /\ zipModelCache'[path] = zipModelCache[path]]_vars

(* a load that found a stale entry and replaced it by the model it built *)
C12_Witness ==
    /\ lastLoad.path # <<>>
    /\ lastLoad.had # 0
    /\ ~lastLoad.fresh
    /\ ~lastLoad.err
    /\ zipModelCache[lastLoad.path] = lastLoad.model
    /\ lastLoad.model # lastLoad.had

(* the recovered names of the file entries of the archive at path *)
EntryPaths(path) ==
    {AutoDetectEncoding(disk[path].entries[j].Name) : j \in DOMAIN disk[path].entries}

(* a call of DeleteFlaggedFiles(path) has succeeded and has dropped an entry *)
RewrittenSmaller(path) ==
    \E t \in DOMAIN tasks :
        /\ tasks[t].zipPath = path
        /\ tasks[t].pc \in {"returned", "finished"}
        /\ ~tasks[t].err
        /\ \E j \in DOMAIN tasks[t].marked : tasks[t].marked[j]

(* C13: a successful LoadZipFile(zipPath) after a successful DeleteFlaggedFiles(zipPath)
   that dropped an entry returns a tree that has no file node for an entry the archive
   no longer holds, also when the rewrite ended within the tick of the file time the
   cached model was loaded with. *)
C13_NoStaleTreeAfterRewrite ==
    [][(Loads /\ ~lastLoad'.err /\ RewrittenSmaller(lastLoad'.path)) =>
          \A n \in FileNodes(models'[lastLoad'.model].nodes) :
              models'[lastLoad'.model].nodes[n].path \in EntryPaths(lastLoad'.path)]_vars

(* C14: when LoadZipFile cannot stat the file, or cannot open or parse it as an archive,
   it returns an error and no model, and the files, the cache (an older entry for the
   path too), the models and the flag store are what they were. *)
C14_LoadFailureChangesNothing ==
    [][Loads =>
          /\ (~lastLoad'.stat \/ (~lastLoad'.fresh /\ ~lastLoad'.readable)) => lastLoad'.err
          /\ lastLoad'.err =>
                /\ lastLoad'.model = 0
                /\ zipModel' = 0
                /\ disk' = disk
                /\ zipModelCache' = zipModelCache
                /\ models' = models
                /\ deleteFlags' = deleteFlags]_vars

(* a load of an unreadable file failed while the cache held an older model for it *)
C14_Witness ==
    /\ lastLoad.path # <<>>
    /\ lastLoad.err
    /\ lastLoad.opened
    /\ lastLoad.had # 0
    /\ lastLoad.path \in DOMAIN zipModelCache
    /\ zipModelCache[lastLoad.path] = lastLoad.had

(* ------------------------------------------------------------------ *)
(* Properties of the tree LoadZipFile builds (TreeSpec: no file on    *)
(* disk changes, a model is built from the entries now on disk)       *)
(* ------------------------------------------------------------------ *)
BuiltFrom(k) == disk[models[k].zipPath].entries

Recovered(file) == AutoDetectEncoding(file.Name)

FileEntries(files) == {j \in DOMAIN files : ~HasSuffixSlash(files[j].Name)}

(* the prefixes of path that end with a slash: the directories path names *)
DirPrefixes(path) == {SubSeq(path, 1, i) : i \in {j \in DOMAIN path : path[j] = Slash}}

(* a path in clean form: no component is empty, "." or ".." *)
IsPlain(path) ==
    \A part \in Range(SplitSlash(TrimSuffixSlash(path))) :
        part # <<>> /\ part # <<Dot>> /\ part # <<Dot, Dot>>

(* the directory nodes reached from n through children *)
RECURSIVE ReachDirs(_, _)
ReachDirs(nodes, n) ==
    {n} \cup UNION {ReachDirs(nodes, c) : c \in Range(nodes[n].children)}

HasDirectory(nodes, path) ==
    \E n \in ReachDirs(nodes, 1) : nodes[n].isDir /\ nodes[n].path = path

(* C15 as stated: every directory that is a prefix of the recovered path of an entry is
   a directory node reached from the root through children. *)
C15_EveryPrefixIsADirectory ==
    \A k \in DOMAIN models : \A j \in DOMAIN BuiltFrom(k) :
        \A prefix \in DirPrefixes(Recovered(BuiltFrom(k)[j])) :
            HasDirectory(models[k].nodes, prefix)

(* C15: for every entry whose recovered path is in clean form, every directory that is
   a prefix of the path is a directory node reached from the root through children,
   whether or not the archive has an entry for the directory. *)
C15_PlainPrefixIsADirectory ==
    \A k \in DOMAIN models : \A j \in DOMAIN BuiltFrom(k) :
        IsPlain(Recovered(BuiltFrom(k)[j])) =>
            \A prefix \in DirPrefixes(Recovered(BuiltFrom(k)[j])) :
                HasDirectory(models[k].nodes, prefix)

(* a tree built from a/b/x, a/y and z without an entry for a/ or a/b/: both directories
   are there, x is a file of a/b/, y a file of a/ and z a file of the root *)
C15_Witness ==
    \E k \in DOMAIN models :
        /\ \A j \in DOMAIN BuiltFrom(k) : ~HasSuffixSlash(BuiltFrom(k)[j].Name)
        /\ \E r \in ReachDirs(models[k].nodes, 1), q \in ReachDirs(models[k].nodes, 1) :
              /\ models[k].nodes[r].path = <<ChA, Slash>>
              /\ models[k].nodes[q].path = <<ChA, Slash, ChB, Slash>>
              /\ q \in Range(models[k].nodes[r].children)
              /\ \E f \in Range(models[k].nodes[q].files) : models[k].nodes[f].name = <<ChX>>
              /\ \E f \in Range(models[k].nodes[r].files) : models[k].nodes[f].name = <<ChY>>
              /\ \E f \in Range(models[k].nodes[1].files) : models[k].nodes[f].name = <<ChZ>>

(* the lookup map LoadZipFile ends with for model k *)
DirMapOf(k) == BuildTree(models[k].zipPath, BuiltFrom(k)).dirMap

(* C16: every tree has one root: node 1 is a directory with path "" and no parent, every
   other node has a path other than "" and has a parent, and the lookup map holds the
   root under "" and under no other key. *)
C16_OneRoot ==
    \A k \in DOMAIN models :
        /\ models[k].rootItem = 1
        /\ models[k].nodes[1].isDir
        /\ models[k].nodes[1].path = <<>>
        /\ models[k].nodes[1].parent = 0
        /\ \A n \in DOMAIN models[k].nodes :
              n # 1 => models[k].nodes[n].path # <<>> /\ models[k].nodes[n].parent # 0
        /\ DirMapOf(k)[<<>>] = 1
        /\ \A key \in DOMAIN DirMapOf(k) : key # <<>> => DirMapOf(k)[key] # 1

(* a tree with directories and with files, one of them from a name with a leading slash *)
C16_Witness ==
    \E k \in DOMAIN models :
        /\ Cardinality(DOMAIN DirMapOf(k)) >= 3
        /\ \E j \in DOMAIN BuiltFrom(k) : BuiltFrom(k)[j].Name = <<Slash, ChZ>>
        /\ Cardinality(FileNodes(models[k].nodes)) >= 2

(* the nodes that are in the files list of n, counted with repetition *)
TimesInFiles(nodes, f) ==
    Cardinality({<<n, i>> \in (DOMAIN nodes) \X (1 .. Len(nodes)) :
                    i \in DOMAIN nodes[n].files /\ nodes[n].files[i] = f})

(* C17: the file nodes are as many as the file entries; a file node is once in the files
   list of its parent, which is a directory, and in no other files list, in no children
   list and not in the lookup map, and its path is the path of the parent followed by its
   name; a file entry whose directory portion is "." gives a file of the root with the
   base name of the entry. *)
C17_FileNodes ==
    \A k \in DOMAIN models :
        LET nodes == models[k].nodes
        IN  /\ Cardinality(FileNodes(nodes)) = Cardinality(FileEntries(BuiltFrom(k)))
            /\ \A f \in FileNodes(nodes) :
                  /\ nodes[f].parent \in DOMAIN nodes
                  /\ nodes[nodes[f].parent].isDir
                  /\ f \in Range(nodes[nodes[f].parent].files)
                  /\ TimesInFiles(nodes, f) = 1
                  /\ \A n \in DOMAIN nodes : f \notin Range(nodes[n].children)
                  /\ f \notin Range(DirMapOf(k))
                  /\ nodes[f].path = nodes[nodes[f].parent].path \o nodes[f].name
            /\ \A j \in FileEntries(BuiltFrom(k)) :
                  Dir(Recovered(BuiltFrom(k)[j])) = <<Dot>> =>
                      \E f \in Range(nodes[1].files) :
                          nodes[f].name = Base(Recovered(BuiltFrom(k)[j]))

(* a tree with a file of the root from an entry without directory portion, and a file
   two directories down *)
C17_Witness ==
    \E k \in DOMAIN models :
        /\ \E j \in FileEntries(BuiltFrom(k)) : Dir(Recovered(BuiltFrom(k)[j])) = <<Dot>>
        /\ models[k].nodes[1].files # <<>>
        /\ \E f \in FileNodes(models[k].nodes) :
              models[k].nodes[f].path = <<ChA, Slash, ChB, Slash, ChX>>

(* the uncompressed size of an entry: the payload numbered d is d + 1 bytes long *)
UncompressedSize(file) == file.Data + 1

(* C18: every file node has the size and the modification time of its entry (the j-th
   file node, in creation order, comes from the j-th file entry); a directory node has
   neither. *)
C18_SizeAndDatePopulated ==
    \A k \in DOMAIN models :
        LET nodes == models[k].nodes
        IN  /\ \A n \in DOMAIN nodes :
                  nodes[n].isDir => nodes[n].size = 0 /\ nodes[n].date = ZeroTime
            /\ \A f \in FileNodes(nodes) :
                  \E j \in FileEntries(BuiltFrom(k)) :
                      /\ nodes[f].name = Base(Recovered(BuiltFrom(k)[j]))
                      /\ nodes[f].size = UncompressedSize(BuiltFrom(k)[j])
                      /\ nodes[f].date = BuiltFrom(k)[j].Modified

(* ------------------------------------------------------------------ *)
(* Properties of ExtractFileToTemp                                    *)
(* ------------------------------------------------------------------ *)
Extracts == lastExtract' # lastExtract

(* the entries of the archive whose recovered name is path *)
Matches(zipPath, path) ==
    {j \in DOMAIN disk[zipPath].entries :
        AutoDetectEncoding(disk[zipPath].entries[j].Name) = path}

FirstMatch(zipPath, path) ==
    CHOOSE j \in Matches(zipPath, path) : \A i \in Matches(zipPath, path) : j <= i

(* C19: a call of ExtractFileToTemp(zipPath, entryPath) on a readable archive with an
   entry whose recovered name is entryPath returns without error the path of a regular
   file; the path is the entry's relative path below a scratch directory that did not
   exist before the call, and the file holds the content of the first entry, in stored
   order, whose recovered name is entryPath. *)
C19_ExtractsFirstMatch ==
    [][(/\ Extracts
        /\ OpenReaderOk(lastExtract'.zipPath)
        /\ Matches(lastExtract'.zipPath, lastExtract'.entryUTF8Path) # {})
       => /\ lastExtract'.err = "none"
          /\ lastExtract'.tempDir \notin DOMAIN tempFS
          /\ lastExtract'.tempDir \in DOMAIN tempFS'
          /\ lastExtract'.outPath =
                lastExtract'.tempDir \o <<Backslash>> \o FromSlash(lastExtract'.entryUTF8Path)
          /\ lastExtract'.outPath \in DOMAIN tempFS'
          /\ tempFS'[lastExtract'.outPath] =
                RegularFile(disk[lastExtract'.zipPath].entries[
                    FirstMatch(lastExtract'.zipPath, lastExtract'.entryUTF8Path)].Data)]_vars

(* C20: a call of ExtractFileToTemp on a readable archive with no entry whose recovered
   name is entryPath returns the not-found error and changes nothing: the files at and
   below the temporary location, the archives, the cache and the flag store are as
   before the call. *)
C20_NotFoundChangesNothing ==
    [][(/\ Extracts
        /\ OpenReaderOk(lastExtract'.zipPath)
        /\ Matches(lastExtract'.zipPath, lastExtract'.entryUTF8Path) = {})
       => /\ lastExtract'.err = "NotExist"
          /\ tempFS' = tempFS
          /\ disk' = disk
          /\ zipModelCache' = zipModelCache
          /\ models' = models
          /\ deleteFlags' = deleteFlags]_vars

(* ------------------------------------------------------------------ *)
(* Properties of AutoDetectEncoding                                   *)
(* ------------------------------------------------------------------ *)
(* s is the UTF-8 encoding of a sequence of code points *)
WellFormed(s) == EncodeRunes(Runes(s)) = s

IsControl(r) == r < ControlLimit /\ r \notin {Tab, Newline, CarriageReturn}

(* the decoding of input by enc has no error, is valid and has no control character *)
Acceptable(enc, input) ==
    /\ ~Decode(enc, input).err
    /\ WellFormed(Decode(enc, input).out)
    /\ \A r \in Range(Runes(Decode(enc, input).out)) : ~IsControl(r)

(* the order of the decoders as the claim gives it *)
ClaimedOrder ==
    <<"ShiftJIS", "EUCJP", "ISO2022JP", "EUCKR", "GBK", "Big5", "Windows1252",
      "UTF16BE", "UTF16LE">>

AcceptableAt(input) == {i \in DOMAIN ClaimedOrder : Acceptable(ClaimedOrder[i], input)}

(* C21: AutoDetectEncoding returns a valid UTF-8 input as it is and runs no decoder,
   whether or not the input has control characters. *)
C21_ValidInputUnchanged ==
    (lastDetect.called /\ WellFormed(lastDetect.input))
        => /\ lastDetect.result.out = lastDetect.input
           /\ lastDetect.result.tried = 0
           /\ ~lastDetect.result.forced

(* a valid input with a two-byte sequence and a control character *)
C21_Witness ==
    /\ lastDetect.called
    /\ lastDetect.input = <<Nul, LatinLead, ContByte>>
    /\ WellFormed(lastDetect.input)
    /\ lastDetect.result.out = lastDetect.input

(* C22: for an input that is not valid UTF-8 and that some decoder of the list decodes
   without error to valid text without control characters other than tab, newline and
   carriage return, AutoDetectEncoding returns the decoding of the first such decoder in
   the order Shift-JIS, EUC-JP, ISO-2022-JP, EUC-KR, GBK, Big5, Windows-1252, UTF-16BE,
   UTF-16LE, having run the decoders up to that one and none after it. *)
C22_FirstAcceptableWins ==
    (lastDetect.called /\ ~WellFormed(lastDetect.input) /\ AcceptableAt(lastDetect.input) # {})
        => \E i \in AcceptableAt(lastDetect.input) :
              /\ \A j \in AcceptableAt(lastDetect.input) : i <= j
              /\ lastDetect.result.out = Decode(ClaimedOrder[i], lastDetect.input).out
              /\ lastDetect.result.tried = i
              /\ ~lastDetect.result.forced

(* an input the first seven decoders decode to text with a control character and the
   eighth, UTF-16BE, to text without *)
C22_Witness ==
    /\ lastDetect.called
    /\ ~WellFormed(lastDetect.input)
    /\ 8 \in AcceptableAt(lastDetect.input)
    /\ \A j \in AcceptableAt(lastDetect.input) : j >= 8
    /\ lastDetect.result.out = Decode("UTF16BE", lastDetect.input).out
    /\ lastDetect.result.out # Decode("ShiftJIS", lastDetect.input).out

(* C23: for an input that is not valid UTF-8 and that no decoder of the list decodes
   acceptably, AutoDetectEncoding returns the Shift-JIS decoding of the input if that
   decoding has no error, control characters or not, and the input itself only if it
   has an error. *)
C23_ForcedShiftJIS ==
    (lastDetect.called /\ ~WellFormed(lastDetect.input) /\ AcceptableAt(lastDetect.input) = {})
        => /\ lastDetect.result.forced
           /\ lastDetect.result.tried = Len(ClaimedOrder)
           /\ lastDetect.result.out =
                 IF ~Decode("ShiftJIS", lastDetect.input).err
                 THEN Decode("ShiftJIS", lastDetect.input).out
                 ELSE lastDetect.input

(* an input every decoder decodes to text with a control character: the Shift-JIS
   decoding, which is not the input, is returned with its control characters *)
C23_Witness ==
    /\ lastDetect.called
    /\ AcceptableAt(lastDetect.input) = {}
    /\ lastDetect.result.forced
    /\ lastDetect.result.out # lastDetect.input
    /\ \E r \in Range(Runes(lastDetect.result.out)) : IsControl(r)

(* ------------------------------------------------------------------ *)
(* Properties of the delete button and the goroutines it starts       *)
(* ------------------------------------------------------------------ *)
(* the calls DeleteFlaggedFiles(path) that have not returned *)
InFlight(path) ==
    {t \in DOMAIN tasks : tasks[t].zipPath = path /\ tasks[t].pc \notin {"returned", "finished"}}

(* the deleting state of path in the file list *)
DeletingSet(path) ==
    path \in DOMAIN fileListModel.deleting /\ fileListModel.deleting[path]

(* C24: at any time at most one call of DeleteFlaggedFiles is in flight for an archive
   path, and a step that starts a rewrite starts it for the selected archive, whose
   deleting state was not set. *)
C24_OneRewritePerPath ==
    /\ [](\A path \in ZipPaths : Cardinality(InFlight(path)) <= 1)
    /\ [][Len(tasks') > Len(tasks)
             => /\ ~DeletingSet(currentZipPath)
                /\ tasks'[Len(tasks')].zipPath = currentZipPath
                /\ InFlight(currentZipPath) = {}]_vars

(* two rewrites in flight side by side, one for each archive *)
C24_Witness ==
    /\ InFlight(PathA) # {}
    /\ InFlight(PathB) # {}
    /\ DeletingSet(PathA) /\ DeletingSet(PathB)

(* the flag edits that call UpdateDeleteFlagRecursively *)
StoreEdits == edits' # edits /\ lastOp'.op # "SetValue"

(* C25: no flag edit that calls UpdateDeleteFlagRecursively with an archive runs while
   a call of DeleteFlaggedFiles for that archive is in flight. *)
C25_NoEditDuringRewrite ==
    [][StoreEdits => InFlight(currentZipPath) = {}]_vars

(* the completion callback of task t runs *)
Completes(t) == tasks[t].pc = "returned" /\ tasks'[t].pc = "finished"

(* a step of the goroutine of some task *)
GoroutineSteps ==
    /\ Len(tasks') = Len(tasks)
    /\ \E t \in DOMAIN tasks : tasks'[t] # tasks[t] /\ tasks'[t].pc # "finished"

(* C26: every rewrite that was started returns and its completion callback runs; the
   callback clears the deleting state of the target after a success and after a failure,
   and reloads the tree with LoadZipFile if the rewrite succeeded and the target is the
   selected archive, and not otherwise; a step of the goroutine leaves the displayed
   model, the tree view, the table and currentZipPath as they are. *)
C26_CompletionRuns ==
    /\ \A t \in TaskIds :
          [](t \in DOMAIN tasks => <>(t \in DOMAIN tasks /\ tasks[t].pc = "finished"))
    /\ [][\A t \in DOMAIN tasks :
             Completes(t) =>
                /\ tasks[t].zipPath \in DOMAIN fileListModel'.deleting
                /\ ~fileListModel'.deleting[tasks[t].zipPath]
                /\ IF ~tasks[t].err /\ currentZipPath = tasks[t].zipPath
                   THEN /\ lastLoad' = Loaded(tasks[t].zipPath, LoadZipFile(tasks[t].zipPath))
                        /\ zipModel' = LoadZipFile(tasks[t].zipPath).model
                   ELSE UNCHANGED <<zipModel, models, zipModelCache, tvModel, tvCurrent,
                                    lastLoad>>]_vars
    /\ [][GoroutineSteps =>
             UNCHANGED <<currentZipPath, zipModel, models, tvModel, tvCurrent, tableModel,
                         fileListModel, zipModelCache>>]_vars

(* a rewrite that succeeded with its archive still selected is over: the callback ran,
   no deleting state is left and the tree was reloaded from the rewritten archive *)
C26_Witness ==
    /\ \E t \in DOMAIN tasks :
          /\ tasks[t].pc = "finished" /\ ~tasks[t].err
          /\ currentZipPath = tasks[t].zipPath
          /\ lastLoad.path = tasks[t].zipPath
          /\ lastLoad.opened
    /\ \A path \in ZipPaths : ~DeletingSet(path)

(* C27: when DeleteFlaggedFiles has returned, with or without an error, after the
   scratch directory was made, the scratch directory and the scratch archive are gone. *)
C27_ScratchRemoved ==
    \A t \in DOMAIN tasks :
        (tasks[t].pc \in {"returned", "finished"} /\ tasks[t].failedAt # "MkdirTemp")
            => /\ ~tasks[t].tempDir
               /\ ~tasks[t].tempZip.exists
               /\ ~tasks[t].newZipFileOpen
               /\ ~tasks[t].zipWriterOpen

(* a call that returned an error from the loop, the scratch archive being open and
   written to, and a call that returned without error *)
C27_Witness ==
    /\ \E t \in DOMAIN tasks :
          tasks[t].pc \in {"returned", "finished"} /\ tasks[t].failedAt = "Copy"
    /\ \E t \in DOMAIN tasks :
          tasks[t].pc \in {"returned", "finished"} /\ tasks[t].failedAt = "none"

(* the store has an entry with a set flag for a path of archive zipPath *)
HasSetFlag(zipPath) ==
    \E key \in DOMAIN deleteFlags :
        /\ deleteFlags[key]
        /\ Len(key) > Len(zipPath)
        /\ SubSeq(key, 1, Len(zipPath) + 1) = zipPath \o <<Colon>>

(* C28: a step that changes the deletion flag store is a flag edit that calls
   UpdateDeleteFlagRecursively; the steps of DeleteFlaggedFiles, the completion callback,
   LoadZipFile (cache hit or rebuild) and ExtractFileToTemp leave every entry of the
   store as it was. *)
C28_StorePersists ==
    [][/\ deleteFlags' # deleteFlags => StoreEdits
       /\ (tasks' # tasks \/ lastLoad' # lastLoad \/ lastExtract' # lastExtract)
              => deleteFlags' = deleteFlags]_vars

(* a rewrite of the selected archive succeeded, the tree was reloaded, and the store
   still holds a set flag for a path of that archive *)
C28_Witness ==
    \E t \in DOMAIN tasks :
        /\ tasks[t].pc = "finished" /\ ~tasks[t].err
        /\ currentZipPath = tasks[t].zipPath
        /\ lastLoad.path = tasks[t].zipPath /\ lastLoad.opened
        /\ HasSetFlag(tasks[t].zipPath)

(* the directory nodes of a tree *)
DirNodes(nodes) == {n \in DOMAIN nodes : nodes[n].isDir}

(* the places of d in the children lists of a tree *)
TimesInChildren(nodes, d) ==
    Cardinality({<<n, i>> \in (DOMAIN nodes) \X (1 .. Len(nodes)) :
                    i \in DOMAIN nodes[n].children /\ nodes[n].children[i] = d})

(* C29: in every tree that was built, asking createDirectoryPath for the path of a
   directory node returns that node and leaves the nodes, their children lists and the
   lookup map as they are; no two directory nodes have one path; every directory node
   but the root is once in the children of its parent and in no other children list, and
   the lookup map holds it under its path. *)
C29_DirectoriesOnce ==
    \A k \in DOMAIN models :
        \E nodes \in {models[k].nodes}, dirMap \in {DirMapOf(k)} :
            /\ \A d \in DirNodes(nodes) :
                  /\ createDirectoryPath(TrimSuffixSlash(nodes[d].path),
                                         [nodes |-> nodes, dirMap |-> dirMap])
                        = [nodes |-> nodes, dirMap |-> dirMap, item |-> d]
                  /\ nodes[d].path \in DOMAIN dirMap
                  /\ dirMap[nodes[d].path] = d
                  /\ \A e \in DirNodes(nodes) : nodes[e].path = nodes[d].path => e = d
            /\ \A d \in DirNodes(nodes) \ {1} :
                  /\ TimesInChildren(nodes, d) = 1
                  /\ d \in Range(nodes[nodes[d].parent].children)
            /\ TimesInChildren(nodes, 1) = 0

(* a tree built from an archive that names a/ after a file below it and then once more:
   a/ is the one directory below the root *)
C29_Witness ==
    \E k \in DOMAIN models :
        /\ Len(BuiltFrom(k)) = 3
        /\ ~HasSuffixSlash(BuiltFrom(k)[1].Name)
        /\ BuiltFrom(k)[2].Name = <<ChA, Slash>>
        /\ BuiltFrom(k)[3].Name = <<ChA, Slash>>
        /\ Cardinality(DirNodes(models[k].nodes)) = 2
        /\ \E d \in DirNodes(models[k].nodes) : models[k].nodes[d].path = <<ChA, Slash>>

(* C30: in every tree that was built, no two distinct nodes, files or directories, have
   the same path. *)
C30_PathsAreUnique ==
    \A k \in DOMAIN models :
        \A n \in DOMAIN models[k].nodes, q \in DOMAIN models[k].nodes :
            models[k].nodes[n].path = models[k].nodes[q].path => n = q

(* the tree LoadZipFile builds from an archive whose one entry has the raw name input *)
TreeOfName(input) == BuildTree(PathA, <<Entry(input, Store, ZeroTime, <<>>, 0, 0)>>).nodes

(* C31: for every raw entry name, AutoDetectEncoding returns a string that is valid
   UTF-8, and the path and the name of every node of the tree built from an entry of
   that name are valid UTF-8. *)
C31_RecoveredIsValid ==
    lastDetect.called
        => /\ WellFormed(lastDetect.result.out)
           /\ \A n \in DOMAIN TreeOfName(lastDetect.input) :
                 /\ WellFormed(TreeOfName(lastDetect.input)[n].path)
                 /\ WellFormed(TreeOfName(lastDetect.input)[n].name)

(* a name that is not valid UTF-8 and that no decoder of the list decodes acceptably:
   the forced decoding is valid UTF-8 and is the path of the file node *)
C31_Witness ==
    /\ lastDetect.called
    /\ ~WellFormed(lastDetect.input)
    /\ lastDetect.result.forced
    /\ lastDetect.result.out # lastDetect.input
    /\ WellFormed(lastDetect.result.out)
    /\ Len(TreeOfName(lastDetect.input)) = 2
    /\ TreeOfName(lastDetect.input)[2].path = lastDetect.result.out

(* the deleting state of path after the step *)
DeletingAfter(path) ==
    path \in DOMAIN fileListModel'.deleting /\ fileListModel'.deleting[path]

(* C32: while the deleting state of P is set, no step of the UI thread makes P the
   current archive or calls LoadZipFile(P), and a step that moves the selection of the
   archive list to the row of P moves it to the row loaded last and leaves currentZipPath
   and the displayed model as they are; a step that calls LoadZipFile(P) ends with the
   deleting state of P cleared. *)
C32_DeletingIsNotOpened ==
    [][/\ \A path \in ZipPaths :
            (DeletingSet(path) /\ DeletingAfter(path)) =>
                /\ currentZipPath' = path => currentZipPath = path
                /\ lastLoad'.path = path => lastLoad' = lastLoad
                /\ (fileListIndex' # fileListIndex
                       /\ PathAt(fileListModel, fileListIndex') = path) =>
                      /\ fileListIndex' = lastFileListIndex
                      /\ UNCHANGED <<currentZipPath, zipModel, tvModel, tvCurrent,
                                     tableModel, models, zipModelCache, lastLoad,
                                     lastFileListIndex>>
       /\ lastLoad' # lastLoad => ~DeletingAfter(lastLoad'.path)]_vars

(* the row of an archive that is being rewritten was selected while another archive
   was current: the selection is on the row loaded last, the other archive is current *)
C32_Witness ==
    \E path \in ZipPaths :
        /\ DeletingSet(path)
        /\ InFlight(path) # {}
        /\ PathAt(fileListModel, fileListIndex) = path
        /\ fileListIndex = lastFileListIndex
        /\ currentZipPath # path
        /\ currentZipPath # <<>>

(* C33: every node of the tree LoadZipFile returned last for an archive path has the flag
   the store holds for the path and the node's path. *)
C33_TreeAgreesWithStore ==
    \A path \in DOMAIN zipModelCache :
        \A n \in DOMAIN models[zipModelCache[path]].nodes :
            models[zipModelCache[path]].nodes[n].DeleteFlag
                = GetDeleteFlag(path, models[zipModelCache[path]].nodes[n].path)

(* the file node LoadZipFile made for the j-th entry of the archive of model k: the file
   nodes are made in the order of the file entries *)
FileNodeOf(k, j) ==
    CHOOSE n \in FileNodes(models[k].nodes) :
        Cardinality({q \in FileNodes(models[k].nodes) : q <= n})
            = Cardinality({i \in FileEntries(BuiltFrom(k)) : i <= j})

(* C34: for every file entry of every archive, the path of the file node LoadZipFile
   builds for it is AutoDetectEncoding(entry.Name), the string DeleteFlaggedFiles and
   ExtractFileToTemp compare with. *)
C34_NodePathIsRecoveredName ==
    \A k \in DOMAIN models :
        \A j \in FileEntries(BuiltFrom(k)) :
            models[k].nodes[FileNodeOf(k, j)].path = Recovered(BuiltFrom(k)[j])

(* C35: GetDeleteFlag(zipPath, filePath) is the flag the last setDeleteFlag for that pair
   set, whatever setDeleteFlag did for other pairs since. *)
C35_KeysAreInjective ==
    \A pair \in DOMAIN lastSet : GetDeleteFlag(pair[1], pair[2]) = lastSet[pair]

(* the goroutines inside the loop of DeleteFlaggedFiles over a non-empty archive: each
   has read deleteFlags or is about to, and nothing orders its reads with the UI thread
   before it hands its function to mw.Synchronize *)
ReadingFlags == {t \in DOMAIN tasks : tasks[t].pc = "loop" /\ Len(tasks[t].File) > 0}

(* C36: no step of the UI thread that writes deleteFlags through setDeleteFlag is taken
   while a goroutine is inside the loop of DeleteFlaggedFiles that reads deleteFlags. *)
C36_NoWriteWhileReading ==
    [][StoreEdits => ReadingFlags = {}]_vars

(* C37: no call of ExtractFileToTemp(P, ...) is made while a call of
   DeleteFlaggedFiles(P) is in flight. *)
C37_NoExtractionDuringRewrite ==
    [][Extracts => InFlight(lastExtract'.zipPath) = {}]_vars

(* path is below the directory dir *)
IsInside(path, dir) ==
    /\ Len(path) > Len(dir) + 1
    /\ SubSeq(path, 1, Len(dir) + 1) = dir \o <<Backslash>>

(* C38: the path a call of ExtractFileToTemp for a node path wrote to and returned is
   below the scratch directory the call made. *)
C38_OutputInsideScratch ==
    (lastExtract.n > 0 /\ lastExtract.err = "none")
        => IsInside(lastExtract.outPath, lastExtract.tempDir)

(* C39: when DeleteFlaggedFiles has returned, with or without an error, the reader of
   the source archive, the scratch file and the zip writer are closed. *)
C39_NoOpenHandle ==
    \A t \in DOMAIN tasks :
        tasks[t].pc \in {"returned", "finished"}
            => /\ ~tasks[t].readerOpen
               /\ ~tasks[t].newZipFileOpen
               /\ ~tasks[t].zipWriterOpen

(* DeleteFlaggedFiles of task t has returned without an error *)
Rewritten(t) == tasks[t].pc \in {"returned", "finished"} /\ ~tasks[t].err

(* C40: when two calls of DeleteFlaggedFiles for one archive have succeeded one after the
   other, with no flag edit and no other change of the archive in between, the archive
   after the second call is complete and has the entries it had after the first, by
   name, order and payload. *)
C40_RewriteIsIdempotent ==
    \A t1 \in DOMAIN tasks, t2 \in DOMAIN tasks :
        (/\ t1 < t2
         /\ tasks[t1].zipPath = tasks[t2].zipPath
         /\ Rewritten(t1) /\ Rewritten(t2))
            => /\ Ids(tasks[t2].orig.entries)
                     = Ids(KeptOf(tasks[t1].orig.entries, tasks[t1].marked))
               /\ disk[tasks[t2].zipPath].complete
               /\ Ids(disk[tasks[t2].zipPath].entries) = Ids(tasks[t2].orig.entries)

(* two rewrites of one archive succeeded; the first removed entries and kept others *)
C40_Witness ==
    \E t1 \in DOMAIN tasks, t2 \in DOMAIN tasks :
        /\ t1 < t2
        /\ tasks[t1].zipPath = tasks[t2].zipPath
        /\ Rewritten(t1) /\ Rewritten(t2)
        /\ Len(tasks[t2].orig.entries) < Len(tasks[t1].orig.entries)
        /\ Len(tasks[t2].orig.entries) > 0
        /\ Ids(disk[tasks[t2].zipPath].entries) = Ids(tasks[t2].orig.entries)

====
